---- MODULE Spec2Model ----
(***************************************************************************)
(* MMC/SD memory card driver on top of an SDIO host                        *)
(* (drivers/mmcsd/mmcsd_sdio.c).                                           *)
(*                                                                         *)
(* The driver state (struct mmcsd_state_s) is the record priv.  Callers    *)
(* are threads that take the driver mutex, run one handler body (one step  *)
(* per loop iteration of mmcsd_read, mmcsd_write and mmcsd_multi_iocmd)    *)
(* and release the mutex.  The card and the SDIO host are the environment: *)
(* the card in the slot is the variable card, and what the host answers    *)
(* during one step is a script chosen for that step.  The calls a step     *)
(* makes on the host (commands and their answers, SDIO_CANCEL, clock and   *)
(* bus width changes, callback enables, block driver registration) are     *)
(* recorded, in order, in sdio.                                            *)
(***************************************************************************)
EXTENDS Integers, Sequences, FiniteSets, TLC

VARIABLES priv, card, config, attached, registered, inodes, lock, cur, sdio,
          hist, faults

vars ==
  <<priv, card, config, attached, registered, inodes, lock, cur, sdio, hist,
    faults>>

(***************************************************************************)
(* Bounds of the exploration.                                              *)
(***************************************************************************)
\* Largest number of PRG/RCV answers the card gives to one busy poll loop.
MaxBusy == 1
\* Largest sector count passed to mmcsd_read / mmcsd_write.
MaxSectors == 3
\* Largest number of commands in one MMC_IOC_MULTI_CMD batch.
MaxBatch == 2
\* Largest reference count explored by open.
MaxOpen == 1
\* Largest number of steps of one behaviour in which the host or the card
\* deviates (an error answer, a timeout, a failed allocation).
MaxFaults == 1
\* Number of system ticks in one second, and the largest value of the tick
\* counter when mmcsd_transferready is entered.
TICK_PER_SEC == 2
MaxStart == 2

(***************************************************************************)
(* Constants of the driver and of the headers it includes.                 *)
(***************************************************************************)
OK == 0
EPERM == 1
EIO == 5
ENOMEM == 12
EBUSY == 16
ENODEV == 19
EINVAL == 22
ENOTTY == 25
ETIMEDOUT == 110

MAX_CREFS == 255
MMCSD_PART_COUNT == 8
MMCSD_PART_UDATA == 0
MMCSD_PART_BOOT0 == 1
MMCSD_PART_BOOT1 == 2
MMCSD_PART_RPMB == 3
MMCSD_PART_GENP0 == 4
MMCSD_MULTIBLOCK_LIMIT == 2
MMC_IOC_MAX_CMDS == 255
MMC_CMD6_MODE_WRITE_BYTE == 3
EXT_CSD_PART_CONF == 179
EXT_CSD_BUS_WIDTH == 183
EXT_CSD_HS_TIMING == 185
MMCSD_SCR_BUSWIDTH_1BIT == 1
MMCSD_SCR_BUSWIDTH_4BIT == 4
MMCSD_CSD_CSIZE_THRESHOLD == 4095

Pow2(n) == 2 ^ n

\* A 32-bit command argument is kept as bit 31 and the low 31 bits.
Arg32(b31, low) == [b31 |-> b31, low |-> low]

Arg(low) == Arg32(FALSE, low)

\* (v << s) truncated to the 32 bits of a command argument, for v below
\* 2^31: bit 31 of the result is bit 31 - s of v.
ShiftLeft32(v, s) ==
  IF s = 0
  THEN Arg32(FALSE, v)
  ELSE Arg32((v \div Pow2(31 - s)) % 2 = 1, (v % Pow2(31 - s)) * Pow2(s))

MMC_CMD6_MODE(m) == m * Pow2(24)

MMC_CMD6_INDEX(i) == i * Pow2(16)

MMC_CMD6_VALUE(v) == v * Pow2(8)

\* Fields of a CMD6 argument, as the card decodes them.
Cmd6Mode(a) == (a \div Pow2(24)) % 4

Cmd6Index(a) == (a \div Pow2(16)) % 256

Cmd6Value(a) == (a \div Pow2(8)) % 256

(***************************************************************************)
(* Card types: the set of MMCSD_CARDTYPE bits that are set.                *)
(***************************************************************************)
MMCSD_CARDTYPE_UNKNOWN == {}

IS_SD(type) == type \cap {"SDV1", "SDV2"} # {}

IS_MMC(type) == "MMC" \in type

IS_BLOCK(type) == "BLOCK" \in type

IS_EMPTY(p) == p.type = MMCSD_CARDTYPE_UNKNOWN

(***************************************************************************)
(* The execution context of one step: the driver state, the card in the    *)
(* slot, the registered block devices, the build configuration, the calls  *)
(* made on the host so far,                                                *)
(* the script of host answers, the number of host interactions consumed,   *)
(* and the last return value.                                              *)
(***************************************************************************)
Ctx(p, cd, reg, cfg, in) ==
  [priv |-> p, card |-> cd, reg |-> reg, cfg |-> cfg, sdio |-> <<>>,
   in |-> in, n |-> 0, r1 |-> "-", ret |-> OK]

Ret(c, r) == [c EXCEPT !.ret = r]

\* Sequencing: what follows a call that returned a context, and what
\* follows only when the call returned OK ("if (ret != OK) return ret").
Let(c, K(_)) == K(c)

Bind(c, K(_)) == IF c.ret # OK THEN c ELSE K(c)

\* An entry of the trace of a step: a call on the host (or a mark left by
\* mmcsd_transferready), its argument, the answer, and the values of
\* wrbusy and of the card type when the entry was made.
Entry(name, a, resp, p) ==
  [cmd |-> name, arg |-> a, resp |-> resp, wrbusy |-> p.wrbusy,
   type |-> p.type]

HostCall(c, name, a) ==
  [c EXCEPT !.sdio = Append(@, Entry(name, a, "-", c.priv))]

\* The answer the host gives at the next interaction point.
Dev(c) == IF c.n + 1 = c.in.at THEN c.in.what ELSE "OK"

Tick(c) == [c EXCEPT !.n = @ + 1]

\* Records the answer to the command sent last.
Answer(c, resp) == [c EXCEPT !.sdio[Len(c.sdio)].resp = resp]

SDIO_PRESENT(c) == c.card # "NONE"

SDIO_CANCEL(c) == HostCall(c, "SDIO_CANCEL", Arg(0))

mmcsd_sendcmdpoll(c, cmd, a) == HostCall(c, cmd, a)

\* R1 with an error bit gives -EIO and latches CARD_IS_LOCKED; a response
\* the host could not receive gives the host's error.
mmcsd_recv_r1(c) ==
  LET d == Dev(c)
      c1 == Tick(c)
  IN  CASE d = "IOERR" ->
             Ret(Answer([c1 EXCEPT !.priv.locked = FALSE], "IOERR"), -EIO)
        [] d = "LOCKED" ->
             Ret(Answer([c1 EXCEPT !.priv.locked = TRUE], "LOCKED"), -EIO)
        [] d = "HOSTERR" -> Ret(Answer(c1, "HOSTERR"), -ETIMEDOUT)
        [] OTHER -> Ret(Answer(c1, "OK"), OK)

mmcsd_eventwait(c) ==
  LET d == Dev(c)
      c1 == Tick(HostCall(c, "SDIO_EVENTWAIT", Arg(0)))
  IN  CASE d = "ALT" -> Ret(Answer(c1, "TIMEOUT"), -ETIMEDOUT)
        [] d = "HOSTERR" -> Ret(Answer(c1, "ERROR"), -EIO)
        [] OTHER -> Ret(Answer(c1, "OK"), OK)

\* CMD13: R1 with an error bit gives -EIO and latches CARD_IS_LOCKED;
\* otherwise r1 is the state the card reports.
mmcsd_get_r1(c, state) ==
  LET d == Dev(c)
      c1 == Tick(mmcsd_sendcmdpoll(c, "CMD13", ShiftLeft32(c.priv.rca, 16)))
  IN  CASE d = "IOERR" ->
             Ret(Answer([c1 EXCEPT !.priv.locked = FALSE], "IOERR"), -EIO)
        [] d = "LOCKED" ->
             Ret(Answer([c1 EXCEPT !.priv.locked = TRUE], "LOCKED"), -EIO)
        [] d = "HOSTERR" -> Ret(Answer(c1, "HOSTERR"), -ETIMEDOUT)
        [] OTHER -> Ret(Answer([c1 EXCEPT !.r1 = state], state), OK)

\* A CMD13 answered with a busy state (PRG or RCV) and no error bit; it
\* is not an interaction point of the script.
BusyPoll(c) ==
  Answer(mmcsd_sendcmdpoll(c, "CMD13", ShiftLeft32(c.priv.rca, 16)),
         c.in.kind)

RECURSIVE BusyPolls(_, _)
BusyPolls(c, k) == IF k = 0 THEN c ELSE BusyPolls(BusyPoll(c), k - 1)

\* Mutation of mmcsd_transferready: the pending write is not waited for.
TransferReady_NoWait(c) ==
  IF IS_EMPTY(c.priv) \/ ~SDIO_PRESENT(c) THEN Ret(c, -ENODEV) ELSE Ret(c, OK)

\* Mutation of mmcsd_transferready: any state the card reports ends the
\* wait with success.
TransferReady_AnyState(c) ==
  IF IS_EMPTY(c.priv) \/ ~SDIO_PRESENT(c)
  THEN Ret(c, -ENODEV)
  ELSE IF ~c.priv.wrbusy
  THEN Ret(c, OK)
  ELSE Bind(mmcsd_get_r1(c, IF Dev(c) = "ALT" THEN "STBY" ELSE "TRAN"),
            LAMBDA c2 : Ret([c2 EXCEPT !.priv.wrbusy = FALSE], OK))

\* The busy loop: in.busy polls find PRG or RCV; then either the second is
\* over (in.expire) or one more poll decides.
TransferReady(c) ==
  IF IS_EMPTY(c.priv) \/ ~SDIO_PRESENT(c)
  THEN Ret(c, -ENODEV)
  ELSE IF ~c.priv.wrbusy
  THEN Ret(c, OK)
  ELSE IF c.in.busy > 0 /\ c.in.expire
  THEN Ret(BusyPolls(c, c.in.busy), -ETIMEDOUT)
  ELSE
  Let(BusyPolls(c, c.in.busy), LAMBDA c1 :
  Bind(mmcsd_get_r1(c1, IF Dev(c1) = "ALT" THEN "STBY" ELSE "TRAN"),
       LAMBDA c2 :
         IF c2.r1 = "TRAN"
         THEN Ret([c2 EXCEPT !.priv.wrbusy = FALSE], OK)
         ELSE Ret(c2, -EINVAL)))

\* mmcsd_transferready(), with its entry and its result marked in the trace.
mmcsd_transferready(c) ==
  Let(TransferReady(HostCall(c, "transferready", Arg(0))), LAMBDA c1 :
    Ret(HostCall(c1, IF c1.ret = OK THEN "transferready:OK"
                                    ELSE "transferready:FAIL", Arg(0)),
        c1.ret))

\* Mutation of mmcsd_switch: wrbusy is left as it was.
Switch_NotBusy(c, a) ==
  Bind(mmcsd_transferready(c), LAMBDA c1 :
    mmcsd_recv_r1(mmcsd_sendcmdpoll(c1, "CMD6", Arg(a))))

mmcsd_switch(c, a) ==
  Bind(mmcsd_transferready(c), LAMBDA c1 :
    mmcsd_recv_r1([mmcsd_sendcmdpoll(c1, "CMD6", Arg(a))
                     EXCEPT !.priv.wrbusy = TRUE]))

\* The answer to CMD12 is the script's field stop.
mmcsd_stoptransmission(c) ==
  Let(mmcsd_sendcmdpoll(c, "CMD12", Arg(0)), LAMBDA c1 :
    CASE c.in.stop = "IOERR" ->
           Ret(Answer([c1 EXCEPT !.priv.locked = FALSE], "IOERR"), -EIO)
      [] c.in.stop = "LOCKED" ->
           Ret(Answer([c1 EXCEPT !.priv.locked = TRUE], "LOCKED"), -EIO)
      [] c.in.stop = "HOSTERR" -> Ret(Answer(c1, "HOSTERR"), -ETIMEDOUT)
      [] OTHER -> Ret(Answer(c1, "OK"), OK))

\* Mutation: the cached block length follows every CMD16 sent, accepted
\* or not.
SetBlockLen_Always(c, blocklen) ==
  IF c.priv.selblocklen = blocklen
  THEN Ret(c, OK)
  ELSE [mmcsd_recv_r1(mmcsd_sendcmdpoll(c, "CMD16", Arg(blocklen)))
          EXCEPT !.priv.selblocklen = blocklen]

mmcsd_setblocklen(c, blocklen) ==
  IF c.priv.selblocklen = blocklen
  THEN Ret(c, OK)
  ELSE Bind(mmcsd_recv_r1(mmcsd_sendcmdpoll(c, "CMD16", Arg(blocklen))),
            LAMBDA c1 : [c1 EXCEPT !.priv.selblocklen = blocklen])

mmcsd_setblockcount(c, a) ==
  mmcsd_recv_r1(mmcsd_sendcmdpoll(c, "CMD23", a))

\* The host's write protect switch, asked only when the card's own
\* protection and the lock do not already decide.
SDIO_WRPROTECTED(c) ==
  IF c.priv.wrprotect \/ c.priv.locked
  THEN c
  ELSE Answer(HostCall(c, "SDIO_WRPROTECTED", Arg(0)),
              IF c.in.hostwp THEN "TRUE" ELSE "FALSE")

\* Mutation: only the card's own write protection is looked at.
WrProtected_CardOnly(c) == c.priv.wrprotect

mmcsd_wrprotected(c) ==
  c.priv.wrprotect \/ c.priv.locked \/ c.in.hostwp

(***************************************************************************)
(* Block transfers.                                                        *)
(***************************************************************************)
HasDma(c) == "DMASUPPORTED" \in c.priv.caps

DmaBeforeWrite(c) == "DMABEFOREWRITE" \in c.priv.caps

\* SDIO_DMAPREFLIGHT and, when it refuses the buffer, the allocation of an
\* aligned bounce buffer, which can fail.
DmaPreflight(c) ==
  IF ~HasDma(c)
  THEN c
  ELSE IF Dev(c) = "HOSTERR" THEN Ret(Tick(c), -ENOMEM) ELSE Ret(Tick(c), c.ret)

\* SDIO_BLOCKSETUP for nblocks blocks, then SDIO_DMARECVSETUP /
\* SDIO_DMASENDSETUP, cancelled on failure; SDIO_RECVSETUP / SDIO_SENDSETUP
\* without DMA.
DmaSetup(c0, nblocks) ==
  Let(HostCall(c0, "SDIO_BLOCKSETUP", Arg(nblocks)), LAMBDA c :
    IF ~HasDma(c)
    THEN Ret(c, OK)
    ELSE IF Dev(c) = "HOSTERR"
    THEN Ret(SDIO_CANCEL(Tick(c)), -EINVAL)
    ELSE Ret(Tick(c), OK))

\* Mutation: the write leaves wrbusy as it was.
WriteStarted_Forgotten(c) == c

\* A write transfer has been handed to the card, which may still be
\* programming: priv->wrbusy = true.
WriteStarted(c) == [c EXCEPT !.priv.wrbusy = TRUE]

\* Mutation: partnum is updated whatever the switch returned.
SelectPartition_Eager(c, partnum) ==
  IF c.priv.partnum = partnum
  THEN Ret(c, OK)
  ELSE [mmcsd_switch(c, MMC_CMD6_MODE(MMC_CMD6_MODE_WRITE_BYTE)
                        + MMC_CMD6_INDEX(EXT_CSD_PART_CONF)
                        + MMC_CMD6_VALUE(partnum))
          EXCEPT !.priv.partnum = partnum]

\* The partition switch every block transfer starts with.
SelectPartition(c, partnum) ==
  IF c.priv.partnum = partnum
  THEN Ret(c, OK)
  ELSE Bind(mmcsd_switch(c, MMC_CMD6_MODE(MMC_CMD6_MODE_WRITE_BYTE)
                            + MMC_CMD6_INDEX(EXT_CSD_PART_CONF)
                            + MMC_CMD6_VALUE(partnum)),
            LAMBDA c1 : [c1 EXCEPT !.priv.partnum = partnum])

\* Mutation: the start block is passed as it is to every card.
Offset_Unshifted(p, startblock) == ShiftLeft32(startblock, 0)

\* The address argument of a data command.
Offset(p, startblock) ==
  IF IS_BLOCK(p.type)
  THEN ShiftLeft32(startblock, 0)
  ELSE ShiftLeft32(startblock, p.blockshift)

\* A data command, its R1, and optionally SDIO_CANCEL when R1 is bad.
DataCmd(c, cmd, a, cancel) ==
  Let(mmcsd_recv_r1(mmcsd_sendcmdpoll(c, cmd, a)), LAMBDA c1 :
    IF c1.ret # OK /\ cancel THEN Ret(SDIO_CANCEL(c1), c1.ret) ELSE c1)

UsesCmd23(p) == IS_MMC(p.type) \/ (IS_SD(p.type) /\ p.cmd23support)

NeedsStop(p) == IS_SD(p.type) /\ ~p.cmd23support

mmcsd_readsingle(c0, partnum, startblock) ==
  IF c0.priv.locked
  THEN Ret(c0, -EPERM)
  ELSE
  Bind(SelectPartition(c0, partnum), LAMBDA c1 :
  Bind(DmaPreflight(c1), LAMBDA c2 :
  Bind(mmcsd_transferready(c2), LAMBDA c3 :
  Bind(mmcsd_setblocklen(c3, c3.priv.blocksize), LAMBDA c4 :
  Bind(DmaSetup(c4, 1), LAMBDA c5 :
  Bind(DataCmd(c5, "CMD17", Offset(c3.priv, startblock), TRUE), LAMBDA c6 :
  Bind(mmcsd_eventwait(c6), LAMBDA c7 : Ret(c7, 1))))))))

mmcsd_readmultiple(c0, partnum, startblock, nblocks) ==
  IF c0.priv.locked
  THEN Ret(c0, -EPERM)
  ELSE
  Bind(SelectPartition(c0, partnum), LAMBDA c1 :
  Bind(DmaPreflight(c1), LAMBDA c2 :
  Bind(mmcsd_transferready(c2), LAMBDA c3 :
  Bind(mmcsd_setblocklen(c3, c3.priv.blocksize), LAMBDA c4 :
  Bind(DmaSetup(c4, nblocks), LAMBDA c5 :
  Bind(IF UsesCmd23(c5.priv)
       THEN mmcsd_setblockcount(c5, Arg(nblocks))
       ELSE c5, LAMBDA c6 :
  Bind(DataCmd(c6, "CMD18", Offset(c3.priv, startblock), TRUE), LAMBDA c7 :
  Bind(mmcsd_eventwait(c7), LAMBDA c8 :
    Ret(IF NeedsStop(c8.priv) THEN mmcsd_stoptransmission(c8) ELSE c8,
        nblocks)))))))))

mmcsd_writesingle(c0, partnum, startblock) ==
  IF mmcsd_wrprotected(c0)
  THEN Ret(SDIO_WRPROTECTED(c0), -EPERM)
  ELSE
  Bind(SelectPartition(SDIO_WRPROTECTED(c0), partnum), LAMBDA c1 :
  Bind(DmaPreflight(c1), LAMBDA c2 :
  Bind(mmcsd_transferready(c2), LAMBDA c3 :
  Bind(mmcsd_setblocklen(c3, c3.priv.blocksize), LAMBDA c4 :
  Bind(IF ~DmaBeforeWrite(c4)
       THEN DataCmd(c4, "CMD24", Offset(c3.priv, startblock), FALSE)
       ELSE c4, LAMBDA c5 :
  Bind(DmaSetup(c5, 1), LAMBDA c6 :
  Bind(IF DmaBeforeWrite(c6)
       THEN DataCmd(c6, "CMD24", Offset(c3.priv, startblock), TRUE)
       ELSE c6, LAMBDA c7 :
  Bind(mmcsd_eventwait(c7), LAMBDA c8 : Ret(WriteStarted(c8), 1)))))))))

\* CMD55 + ACMD23 (SD) and CMD23 (MMC, or SD with CMD23 support) that
\* precede CMD25.
\* Mutation: the block count of an MMC card never carries bit 31.
WritePreErase_NoReliable(c, nblocks) ==
  Bind(IF IS_SD(c.priv.type)
       THEN mmcsd_recv_r1(mmcsd_sendcmdpoll(c, "CMD55",
                                            ShiftLeft32(c.priv.rca, 16)))
       ELSE c, LAMBDA c1 :
  Bind(IF IS_SD(c1.priv.type)
       THEN mmcsd_recv_r1(mmcsd_sendcmdpoll(c1, "ACMD23", Arg(nblocks)))
       ELSE c1, LAMBDA c2 :
    IF IS_MMC(c2.priv.type) \/ c2.priv.cmd23support
    THEN mmcsd_setblockcount(c2, Arg(nblocks))
    ELSE c2))

WritePreErase(c, nblocks) ==
  Bind(IF IS_SD(c.priv.type)
       THEN mmcsd_recv_r1(mmcsd_sendcmdpoll(c, "CMD55",
                                            ShiftLeft32(c.priv.rca, 16)))
       ELSE c, LAMBDA c1 :
  Bind(IF IS_SD(c1.priv.type)
       THEN mmcsd_recv_r1(mmcsd_sendcmdpoll(c1, "ACMD23", Arg(nblocks)))
       ELSE c1, LAMBDA c2 :
    IF IS_MMC(c2.priv.type)
    THEN mmcsd_setblockcount(c2,
           Arg32(c2.priv.partnum = MMCSD_PART_RPMB, nblocks))
    ELSE IF IS_SD(c2.priv.type) /\ c2.priv.cmd23support
    THEN mmcsd_setblockcount(c2, Arg(nblocks))
    ELSE c2))

\* Mutation: the error of CMD12 comes before the error of the transfer.
WriteStop_StopFirst(ev, nblocks) ==
  Let(IF NeedsStop(ev.priv) THEN mmcsd_stoptransmission(ev) ELSE ev,
      LAMBDA c9 :
        IF c9.ret # OK
        THEN c9
        ELSE IF ev.ret # OK
        THEN Ret(c9, ev.ret)
        ELSE Ret(WriteStarted(c9), nblocks))

\* Mutation of the end of mmcsd_writemultiple: wrbusy is set before the
\* results of the transfer and of CMD12 are looked at.
WriteStop_BusyFirst(ev, nblocks) ==
  Let(IF NeedsStop(ev.priv) THEN mmcsd_stoptransmission(ev) ELSE ev,
      LAMBDA c9 :
        IF ev.ret # OK
        THEN Ret(WriteStarted(c9), ev.ret)
        ELSE IF c9.ret # OK
        THEN WriteStarted(c9)
        ELSE Ret(WriteStarted(c9), nblocks))

\* The end of mmcsd_writemultiple: CMD12 where the card needs it, sent
\* whether or not the transfer failed; the error of the transfer comes
\* first.
WriteStop(ev, nblocks) ==
  Let(IF NeedsStop(ev.priv) THEN mmcsd_stoptransmission(ev) ELSE ev,
      LAMBDA c9 :
        IF ev.ret # OK
        THEN Ret(c9, ev.ret)
        ELSE IF c9.ret # OK
        THEN c9
        ELSE Ret(WriteStarted(c9), nblocks))

mmcsd_writemultiple(c0, partnum, startblock, nblocks) ==
  IF mmcsd_wrprotected(c0)
  THEN Ret(SDIO_WRPROTECTED(c0), -EPERM)
  ELSE
  Bind(SelectPartition(SDIO_WRPROTECTED(c0), partnum), LAMBDA c1 :
  Bind(DmaPreflight(c1), LAMBDA c2 :
  Bind(mmcsd_transferready(c2), LAMBDA c3 :
  Bind(mmcsd_setblocklen(c3, c3.priv.blocksize), LAMBDA c4 :
  Bind(WritePreErase(c4, nblocks), LAMBDA c5 :
  Bind(IF ~DmaBeforeWrite(c5)
       THEN DataCmd(c5, "CMD25", Offset(c3.priv, startblock), FALSE)
       ELSE c5, LAMBDA c6 :
  Bind(DmaSetup(c6, nblocks), LAMBDA c7 :
  Bind(IF DmaBeforeWrite(c7)
       THEN DataCmd(c7, "CMD25", Offset(c3.priv, startblock), TRUE)
       ELSE c7, LAMBDA c8 :
    WriteStop(mmcsd_eventwait(c8), nblocks)))))))))

(***************************************************************************)
(* The cards that can be in the slot: what each answers during             *)
(* identification, its CSD, SCR and EXT_CSD registers.                     *)
(***************************************************************************)
CardInfo ==
  [SDV1 |-> [mmc |-> FALSE, cmd8 |-> FALSE, hcs |-> FALSE, rca |-> 2,
             readbllen |-> 10, csize |-> 3, csizemult |-> 0,
             permwp |-> FALSE, tmpwp |-> FALSE, dsrimp |-> FALSE,
             scrbuswidth |-> 5, cmd23 |-> FALSE,
             seccount |-> 0, parten |-> FALSE, bootmult |-> 0,
             rpmbmult |-> 0],
   SDHC |-> [mmc |-> FALSE, cmd8 |-> TRUE, hcs |-> TRUE, rca |-> 3,
             readbllen |-> 9, csize |-> 0, csizemult |-> 0,
             permwp |-> FALSE, tmpwp |-> FALSE, dsrimp |-> FALSE,
             scrbuswidth |-> 5, cmd23 |-> TRUE,
             seccount |-> 0, parten |-> FALSE, bootmult |-> 0,
             rpmbmult |-> 0],
   MMCWP |-> [mmc |-> TRUE, cmd8 |-> FALSE, hcs |-> FALSE, rca |-> 0,
             readbllen |-> 8, csize |-> 3, csizemult |-> 0,
             permwp |-> FALSE, tmpwp |-> TRUE, dsrimp |-> FALSE,
             scrbuswidth |-> 0, cmd23 |-> FALSE,
             seccount |-> 0, parten |-> FALSE, bootmult |-> 0,
             rpmbmult |-> 0],
   EMMC |-> [mmc |-> TRUE, cmd8 |-> FALSE, hcs |-> TRUE, rca |-> 0,
             readbllen |-> 9, csize |-> 4095, csizemult |-> 7,
             permwp |-> FALSE, tmpwp |-> FALSE, dsrimp |-> FALSE,
             scrbuswidth |-> 0, cmd23 |-> FALSE,
             seccount |-> 2048, parten |-> TRUE, bootmult |-> 0,
             rpmbmult |-> 1],
   MMC2G |-> [mmc |-> TRUE, cmd8 |-> FALSE, hcs |-> FALSE, rca |-> 0,
             readbllen |-> 10, csize |-> 4095, csizemult |-> 7,
             permwp |-> FALSE, tmpwp |-> FALSE, dsrimp |-> FALSE,
             scrbuswidth |-> 0, cmd23 |-> FALSE,
             seccount |-> 0, parten |-> FALSE, bootmult |-> 0,
             rpmbmult |-> 0],
   EMMCLO |-> [mmc |-> TRUE, cmd8 |-> FALSE, hcs |-> TRUE, rca |-> 0,
             readbllen |-> 9, csize |-> 1023, csizemult |-> 1,
             permwp |-> FALSE, tmpwp |-> FALSE, dsrimp |-> FALSE,
             scrbuswidth |-> 0, cmd23 |-> FALSE,
             seccount |-> 4096, parten |-> FALSE, bootmult |-> 0,
             rpmbmult |-> 0],
   SDODD |-> [mmc |-> FALSE, cmd8 |-> FALSE, hcs |-> TRUE, rca |-> 4,
             readbllen |-> 9, csize |-> 3, csizemult |-> 0,
             permwp |-> FALSE, tmpwp |-> FALSE, dsrimp |-> FALSE,
             scrbuswidth |-> 5, cmd23 |-> FALSE,
             seccount |-> 0, parten |-> FALSE, bootmult |-> 0,
             rpmbmult |-> 0]]

\* Cards that set HCS in the R3 of ACMD41 although the host did not offer
\* it.
Unasked == {"SDODD"}

Cards == DOMAIN CardInfo

\* 128 KiB in 512-byte blocks.
MCSD_SZ_128K_BLOCKS == 256

Parts == 0 .. (MMCSD_PART_COUNT - 1)

(***************************************************************************)
(* Register decoding.                                                      *)
(***************************************************************************)
\* Mutation of mmcsd_decode_csd: the block count always comes from C_SIZE
\* and C_SIZE_MULT.
DecodeCsd_NoThreshold(p, csd) ==
  LET units == (csd.csize + 1) * Pow2(csd.csizemult + 2)
      big == Pow2(csd.readbllen) > 512
  IN  [p EXCEPT !.dsrimp = csd.dsrimp,
                !.blockshift = IF big THEN 9 ELSE csd.readbllen,
                !.blocksize = IF big THEN 512 ELSE Pow2(csd.readbllen),
                !.part[0] = IF big THEN units * Pow2(csd.readbllen - 9)
                                   ELSE units,
                !.wrprotect = csd.permwp \/ csd.tmpwp]

mmcsd_decode_csd(p, csd) ==
  LET units == (csd.csize + 1) * Pow2(csd.csizemult + 2)
      big == Pow2(csd.readbllen) > 512
      threshold == csd.csize = MMCSD_CSD_CSIZE_THRESHOLD
      geo ==
        IF IS_BLOCK(p.type) /\ ~IS_MMC(p.type)
        THEN [blockshift |-> 9, blocksize |-> Pow2(9),
              nblocks |-> (csd.csize + 1) * Pow2(19 - 9)]
        ELSE IF IS_BLOCK(p.type) /\ threshold
        THEN [blockshift |-> IF big THEN 9 ELSE csd.readbllen,
              blocksize |-> IF big THEN 512 ELSE Pow2(csd.readbllen),
              nblocks |-> p.part[0]]
        ELSE [blockshift |-> IF big THEN 9 ELSE csd.readbllen,
              blocksize |-> IF big THEN 512 ELSE Pow2(csd.readbllen),
              nblocks |-> IF big
                          THEN units * Pow2(csd.readbllen - 9)
                          ELSE units]
  IN  [p EXCEPT !.dsrimp = csd.dsrimp,
                !.blockshift = geo.blockshift,
                !.blocksize = geo.blocksize,
                !.part[0] = geo.nblocks,
                !.wrprotect = csd.permwp \/ csd.tmpwp]

mmcsd_decode_scr(p, scr) ==
  [p EXCEPT !.buswidth = scr.scrbuswidth, !.cmd23support = scr.cmd23]

\* Mutation: the sector count of EXT_CSD is added to the size the slot
\* already holds.
DecodeExtCsd_Accumulate(p, ext) ==
  [p EXCEPT !.part[0] = @ + ext.seccount]

\* The cards of the model have no general purpose partitions
\* (GP_SIZE_MULT is zero), so the loop over them changes nothing.
mmcsd_decode_extcsd(p, ext) ==
  LET p1 == [p EXCEPT !.part[0] = ext.seccount]
  IN  IF ext.parten
      THEN [p1 EXCEPT
              !.part[MMCSD_PART_BOOT0] = ext.bootmult * MCSD_SZ_128K_BLOCKS,
              !.part[MMCSD_PART_BOOT1] = ext.bootmult * MCSD_SZ_128K_BLOCKS,
              !.part[MMCSD_PART_RPMB] = ext.rpmbmult * MCSD_SZ_128K_BLOCKS]
      ELSE p1

(***************************************************************************)
(* Bus width, card status, SCR and EXT_CSD access.                         *)
(***************************************************************************)
Has4Bit(p) == (p.buswidth \div MMCSD_SCR_BUSWIDTH_4BIT) % 2 = 1

Set4Bit(p) ==
  IF Has4Bit(p) THEN p ELSE [p EXCEPT !.buswidth = @ + MMCSD_SCR_BUSWIDTH_4BIT]

Rca16(c) == ShiftLeft32(c.priv.rca, 16)

\* SDIO_RECVR2 / SDIO_RECVR3 / SDIO_RECVR7: fails when the host got no
\* valid response.
HostRecv(c) ==
  IF Dev(c) = "HOSTERR"
  THEN Ret(Answer(Tick(c), "HOSTERR"), -ETIMEDOUT)
  ELSE Ret(Answer(Tick(c), "OK"), OK)

\* A command the card in the slot does not answer.
NoResponse(c) == Ret(Answer(Tick(c), "HOSTERR"), -ETIMEDOUT)

mmcsd_recv_r6(c) ==
  LET d == Dev(c)
      c1 == Tick(c)
  IN  CASE d \in {"IOERR", "LOCKED"} -> Ret(Answer(c1, "IOERR"), -EIO)
        [] d = "HOSTERR" -> Ret(Answer(c1, "HOSTERR"), -ETIMEDOUT)
        [] OTHER ->
             Ret(Answer([c1 EXCEPT !.priv.rca = CardInfo[c.card].rca], "OK"),
                 OK)

\* The card is in STANDBY after CMD3 unless the script says otherwise.
mmcsd_verifystate(c, state) ==
  Bind(mmcsd_get_r1(c, IF Dev(c) = "ALT" THEN "IDENT" ELSE "STBY"),
       LAMBDA c1 :
         IF c1.r1 = state
         THEN Ret([c1 EXCEPT !.priv.wrbusy = FALSE], OK)
         ELSE Ret(c1, -EINVAL))

Cmd_R1(c, cmd, a) == mmcsd_recv_r1(mmcsd_sendcmdpoll(c, cmd, a))

\* The second half of mmcsd_widebus: the host's bus width, then the clock
\* (for MMC after the switch to high speed where the host has it).
WidebusFinish(c, wide) ==
  Let([HostCall(c, IF wide THEN "SDIO_WIDEBUS_ON" ELSE "SDIO_WIDEBUS_OFF",
                Arg(0)) EXCEPT !.priv.widebus = wide], LAMBDA x :
    IF IS_SD(x.priv.type)
    THEN Ret(HostCall(x, IF Has4Bit(x.priv) THEN "SDIO_CLOCK_SD_4BIT"
                                            ELSE "SDIO_CLOCK_SD_1BIT",
                      Arg(0)), OK)
    ELSE Bind(IF "MMC_HS_MODE" \in x.priv.caps
              THEN Cmd_R1(x, "CMD6",
                          Arg(MMC_CMD6_MODE(MMC_CMD6_MODE_WRITE_BYTE)
                              + MMC_CMD6_INDEX(EXT_CSD_HS_TIMING)
                              + MMC_CMD6_VALUE(1)))
              ELSE Ret(x, OK),
              LAMBDA x3 : Ret(HostCall(x3, "SDIO_CLOCK_MMC", Arg(0)), OK)))

WideWanted(p) ==
  "1BIT_ONLY" \notin p.caps /\ (IS_MMC(p.type) \/ Has4Bit(p))

mmcsd_widebus(c) ==
  IF IS_SD(c.priv.type) /\ Has4Bit(c.priv) /\ "1BIT_ONLY" \notin c.priv.caps
  THEN Bind(Cmd_R1(c, "CMD55", Rca16(c)), LAMBDA c1 :
       Bind(Cmd_R1(c1, "ACMD42", Arg(0)), LAMBDA c2 :
       Bind(Cmd_R1(c2, "CMD55", Rca16(c)), LAMBDA c3 :
       Bind(Cmd_R1(c3, "ACMD6", Arg(2)), LAMBDA c4 :
         WidebusFinish(c4, WideWanted(c.priv))))))
  ELSE IF IS_MMC(c.priv.type) /\ Has4Bit(c.priv)
          /\ "1BIT_ONLY" \notin c.priv.caps
  THEN Bind(Cmd_R1(c, "CMD6", Arg(MMC_CMD6_MODE(MMC_CMD6_MODE_WRITE_BYTE)
                                  + MMC_CMD6_INDEX(EXT_CSD_BUS_WIDTH)
                                  + MMC_CMD6_VALUE(1))),
            LAMBDA c1 : WidebusFinish(c1, WideWanted(c.priv)))
  ELSE IF ~IS_SD(c.priv.type) /\ ~IS_MMC(c.priv.type)
  THEN Ret(HostCall(HostCall([c EXCEPT !.priv.widebus = FALSE],
                             "SDIO_WIDEBUS_OFF", Arg(0)),
                    "SDIO_CLOCK_DISABLED", Arg(0)), OK)
  ELSE WidebusFinish(c, WideWanted(c.priv))

\* A failure after the receive has been set up cancels it.
Cancelled(c) == IF c.ret # OK THEN Ret(SDIO_CANCEL(c), c.ret) ELSE c

mmcsd_get_scr(c) ==
  Bind(mmcsd_setblocklen(c, 8), LAMBDA c1 :
  Bind(Cancelled(Cmd_R1(c1, "CMD55", Rca16(c1))), LAMBDA c2 :
  Bind(Cancelled(Cmd_R1(c2, "ACMD51", Arg(0))), LAMBDA c3 :
    mmcsd_eventwait(c3))))

\* SDIO_DMAPREFLIGHT of mmcsd_read_extcsd: a refused buffer is -EINVAL.
ExtCsdPreflight(c) ==
  IF ~HasDma(c)
  THEN Ret(c, OK)
  ELSE IF Dev(c) = "HOSTERR" THEN Ret(Tick(c), -EINVAL) ELSE Ret(Tick(c), OK)

mmcsd_read_extcsd(c0) ==
  IF c0.priv.locked
  THEN Ret(c0, -EPERM)
  ELSE
  Bind(ExtCsdPreflight(c0), LAMBDA c1 :
  Bind(mmcsd_transferready(c1), LAMBDA c2 :
  Bind(mmcsd_setblocklen(c2, 512), LAMBDA c3 :
  Bind(DmaSetup(c3, 1), LAMBDA c4 :
  Bind(DataCmd(c4, "CMD8", Arg(0), TRUE), LAMBDA c5 :
    mmcsd_eventwait(c5))))))

(***************************************************************************)
(* Card identification and initialization.                                 *)
(***************************************************************************)
MMCSD_R3_HIGHCAPACITY == Pow2(30)

MMCSD_VDD_33_34 == Pow2(21)

MMCSD_ACMD41_VOLTAGEWINDOW_33_32 == Pow2(20)

\* MMCSD_CMD8CHECKPATTERN | MMCSD_CMD8VOLTAGE_27
MMCSD_CMD8_ARG == 426

\* Mutation: the type found so far survives the expiry of the loop.
TimedOut_KeepsType(c) == Ret(c, -EIO)

TimedOut(c) ==
  Ret([c EXCEPT !.priv.type = MMCSD_CARDTYPE_UNKNOWN], -EIO)

\* CMD1 and its R3: the type the answer gives, and whether the card is
\* ready.  Only MMC cards answer.
SendOpCond(c, hcs) ==
  LET c1 == mmcsd_sendcmdpoll(c, "CMD1",
              Arg(MMCSD_VDD_33_34 + (IF hcs THEN MMCSD_R3_HIGHCAPACITY ELSE 0)))
  IN  IF CardInfo[c.card].mmc THEN HostRecv(c1) ELSE NoResponse(c1)

MmcType(c) ==
  IF CardInfo[c.card].hcs THEN {"MMC", "BLOCK"} ELSE {"MMC"}

\* CMD55 + ACMD41 and its R3.  Only SD cards answer CMD55.
SdSendOpCond(c) ==
  Bind(Let(mmcsd_sendcmdpoll(c, "CMD55", Arg(0)), LAMBDA x :
         IF CardInfo[c.card].mmc THEN NoResponse(x) ELSE mmcsd_recv_r1(x)),
       LAMBDA c1 :
         HostRecv(mmcsd_sendcmdpoll(c1, "ACMD41",
                    Arg(MMCSD_ACMD41_VOLTAGEWINDOW_33_32
                        + (IF "SDV2" \in c.priv.type
                           THEN MMCSD_R3_HIGHCAPACITY ELSE 0)))))

\* The card answers ACMD41 "ready" once it is no longer busy; a high
\* capacity card that was not offered HCS never does.
SdReady(c, k) ==
  k = 0 /\ (CardInfo[c.card].hcs =>
              ("SDV2" \in c.priv.type \/ c.card \in Unasked))

\* One pass of the ACMD41 / CMD1 loop.  k is the number of passes in which
\* the card still answers "busy".  The result says whether the loop was
\* left by break and whether the card answered at all.
IdPass(c, k) ==
  IF ~IS_MMC(c.priv.type)
  THEN Let(SdSendOpCond(c), LAMBDA c2 :
         [c |-> IF c2.ret = OK
                THEN [c2 EXCEPT !.priv.type =
                        (IF @ = MMCSD_CARDTYPE_UNKNOWN THEN {"SDV1"} ELSE @)
                        \cup (IF SdReady(c, k) /\ CardInfo[c.card].hcs
                              THEN {"BLOCK"} ELSE {})]
                ELSE c2,
          brk |-> c2.ret = OK /\ SdReady(c, k),
          answered |-> c2.ret = OK])
  ELSE Let(SendOpCond(c, IS_BLOCK(c.priv.type)), LAMBDA c4 :
         [c |-> IF c4.ret = OK
                THEN [c4 EXCEPT !.priv.type = MmcType(c)]
                ELSE c4,
          brk |-> c4.ret = OK /\ k = 0,
          answered |-> c4.ret = OK])

RECURSIVE IdLoop(_, _)
IdLoop(c, k) ==
  Let(IdPass(c, k), LAMBDA r :
    IF r.brk
    THEN Ret(r.c, OK)
    ELSE IF r.answered /\ k > 1
    THEN IdLoop(r.c, k - 1)
    ELSE IF r.answered /\ k = 1
    THEN IF c.in.expire THEN TimedOut(r.c) ELSE IdLoop(r.c, 0)
    ELSE IF ~r.answered /\ c.n < c.in.at /\ c.in.at <= r.c.n
    THEN IdLoop(r.c, k)
    ELSE TimedOut(r.c))

\* The reset and the first CMD1, which tells an MMC card from the rest.
IdReset(c) ==
  Let(SendOpCond(mmcsd_sendcmdpoll(
                   mmcsd_sendcmdpoll(HostCall(c, "SDIO_CLOCK_IDMODE", Arg(0)),
                                     "CMD0", Arg32(TRUE, 1894838512)),
                   "CMD0", Arg(0)), TRUE),
      LAMBDA c4 :
        IF c4.ret # OK
        THEN mmcsd_sendcmdpoll(c4, "CMD0", Arg(0))
        ELSE IF "4BIT_ONLY" \in c.priv.caps
        THEN [c4 EXCEPT !.priv = Set4Bit([@ EXCEPT !.type = MmcType(c)])]
        ELSE [c4 EXCEPT !.priv.type = MmcType(c)])

\* CMD8 and its R7: a card that answers with another check pattern or
\* voltage is refused.
SendIfCond(c) ==
  Let(mmcsd_sendcmdpoll(c, "CMD8", Arg(MMCSD_CMD8_ARG)), LAMBDA c6 :
  Let(IF CardInfo[c.card].cmd8 THEN HostRecv(c6) ELSE NoResponse(c6),
      LAMBDA c7 :
        IF c7.ret = OK /\ Dev(c6) = "ALT"
        THEN Ret(Answer(c7, "MISMATCH"), -EIO)
        ELSE IdLoop(IF c7.ret = OK
                    THEN [c7 EXCEPT !.priv.type = {"SDV2"}]
                    ELSE c7, c.in.busy)))

\* The card detect as mmcsd_cardidentify reads it.
CardSensed(c) == SDIO_PRESENT(c) /\ ~c.in.absent

\* A mark in the trace where mmcsd_cardidentify returns: the error number
\* returned (0 for OK) and the card type at that moment.
Identified(c) == HostCall(c, "cardidentify", Arg(-c.ret))

mmcsd_cardidentify(c0) ==
  IF ~CardSensed(c0)
  THEN Identified(Ret([c0 EXCEPT !.priv.type = MMCSD_CARDTYPE_UNKNOWN],
                      -ENODEV))
  ELSE
  Let(IdReset([c0 EXCEPT !.priv.type = MMCSD_CARDTYPE_UNKNOWN]), LAMBDA c5 :
    Identified(
      IF IS_MMC(c5.priv.type) /\ c0.in.busy = 0
      THEN Ret(c5, OK)
      ELSE IF IS_MMC(c5.priv.type)
      THEN IdLoop(c5, IF c0.in.expire THEN c0.in.busy ELSE c0.in.busy - 1)
      ELSE SendIfCond(c5)))

\* CONFIG_MMCSD_DSR is not set: no CMD4 is sent.
mmcsd_sendcmd4(c) == c

\* mmcsd_widebus() whose failure the caller only logs.
\* Mutation: a failure of mmcsd_widebus is returned.
TryWidebus_Strict(c) == mmcsd_widebus(c)

TryWidebus(c) == Ret(mmcsd_widebus(c), OK)

\* The host supports only 4-bit transfers: the bus is widened before the
\* first data transfer.
Force4Bit(c) ==
  IF "4BIT_ONLY" \in c.priv.caps
  THEN TryWidebus([c EXCEPT !.priv.buswidth = MMCSD_SCR_BUSWIDTH_4BIT])
  ELSE c

mmcsd_sdinitialize(c0) ==
  Bind(HostRecv(mmcsd_sendcmdpoll(c0, "CMD2", Arg(0))), LAMBDA c1 :
  Bind(mmcsd_recv_r6(mmcsd_sendcmdpoll(c1, "CMD3", Arg(0))), LAMBDA c2 :
  Bind(mmcsd_verifystate(c2, "STBY"), LAMBDA c3 :
  Bind(HostRecv(mmcsd_sendcmdpoll(c3, "CMD9", Rca16(c3))), LAMBDA c4 :
  Bind(Cmd_R1([c4 EXCEPT !.priv = mmcsd_decode_csd(@, CardInfo[c4.card])],
              "CMD7", Rca16(c4)), LAMBDA c6 :
  Bind(mmcsd_get_scr(Force4Bit(HostCall(mmcsd_sendcmd4(c6),
                                        "SDIO_CLOCK_SD_1BIT", Arg(0)))),
       LAMBDA c9 :
         IF "4BIT" \in c9.priv.caps
         THEN TryWidebus([c9 EXCEPT
                            !.priv = mmcsd_decode_scr(@, CardInfo[c9.card])])
         ELSE Ret([c9 EXCEPT
                     !.priv = mmcsd_decode_scr(@, CardInfo[c9.card])],
                  OK)))))))

mmcsd_mmcinitialize(c0) ==
  Bind(HostRecv(mmcsd_sendcmdpoll(c0, "CMD2", Arg(0))), LAMBDA c1 :
  Bind(Cmd_R1([c1 EXCEPT !.priv.rca = 1], "CMD3", ShiftLeft32(1, 16)),
       LAMBDA c2 :
  Bind(mmcsd_verifystate(c2, "STBY"), LAMBDA c3 :
  Bind(HostRecv(mmcsd_sendcmdpoll(c3, "CMD9", Rca16(c3))), LAMBDA c4 :
  Bind(Cmd_R1(mmcsd_sendcmd4(
                [c4 EXCEPT !.priv = mmcsd_decode_csd(@, CardInfo[c4.card])]),
              "CMD7", Rca16(c4)), LAMBDA c6 :
  Let(Force4Bit(c6), LAMBDA c7 :
  Bind(IF IS_BLOCK(c7.priv.type) THEN mmcsd_read_extcsd(c7) ELSE c7,
       LAMBDA c8 :
         TryWidebus(
           [c8 EXCEPT
              !.priv = mmcsd_decode_csd(
                         IF IS_BLOCK(c8.priv.type)
                         THEN mmcsd_decode_extcsd(@, CardInfo[c8.card])
                         ELSE @,
                         CardInfo[c8.card])]))))))))

(***************************************************************************)
(* Insertion and removal.                                                  *)
(***************************************************************************)
\* Mutation: only the name of the user data partition is unregistered.
UnregisterAll_UserOnly(c, i) ==
  [HostCall(c, "unregister_blockdriver", Arg(i)) EXCEPT !.reg = @ \ {i}]

\* unregister_blockdriver of the names of partitions i and up.
RECURSIVE UnregisterAll(_, _)
UnregisterAll(c, i) ==
  IF i = MMCSD_PART_COUNT
  THEN c
  ELSE UnregisterAll([HostCall(c, "unregister_blockdriver", Arg(i))
                        EXCEPT !.reg = @ \ {i}], i + 1)

\* The fields mmcsd_removed resets.
Forget(c) ==
  [c EXCEPT !.priv.blocksize = 0,
            !.priv.probed = FALSE,
            !.priv.mediachanged = FALSE,
            !.priv.wrbusy = FALSE,
            !.priv.type = MMCSD_CARDTYPE_UNKNOWN,
            !.priv.rca = 0,
            !.priv.selblocklen = 0,
            !.priv.buswidth = MMCSD_SCR_BUSWIDTH_1BIT]

mmcsd_removed(c0) ==
  Ret(HostCall(
        mmcsd_widebus(
          [HostCall(Forget(UnregisterAll(c0, 0)), "SDIO_WIDEBUS_OFF", Arg(0))
             EXCEPT !.priv.widebus = FALSE]),
        "SDIO_CLOCK_DISABLED", Arg(0)), OK)

RECURSIVE RegisterParts(_, _)
RegisterParts(c, i) ==
  IF i = MMCSD_PART_COUNT
  THEN c
  ELSE IF c.priv.part[i] # 0
  THEN RegisterParts([HostCall(c, "register_blockdriver", Arg(i)) EXCEPT
                        !.reg = @ \cup {i}], i + 1)
  ELSE RegisterParts(c, i + 1)

CallbackEnable(c, what) ==
  IF c.cfg.HAVE_CARDDETECT
  THEN HostCall(c, "SDIO_CALLBACKENABLE_" \o what, Arg(0))
  ELSE c

\* The initialization the identified card type selects.
\* Marks in the trace what the initialization returned.
Initialized(c) == HostCall(c, "initialize", Arg(-c.ret))

Initialize(c) ==
  IF c.priv.type \in {{"SDV1"}, {"SDV2"}, {"SDV2", "BLOCK"}}
  THEN Initialized(mmcsd_sdinitialize(c))
  ELSE IF c.priv.type \in {{"MMC"}, {"MMC", "BLOCK"}}
  THEN Initialized(mmcsd_mmcinitialize(c))
  ELSE Initialized(Ret(c, -EPERM))

\* The end of mmcsd_probe, after the initialization returned in c3.
Probed(c3) ==
  Ret(CallbackEnable(
        RegisterParts([c3 EXCEPT !.priv.probed = TRUE,
                                 !.priv.mediachanged =
                                   IF c3.ret = OK THEN TRUE ELSE @], 0),
        "EJECTED"), c3.ret)

mmcsd_probe(c0) ==
  IF c0.cfg.HAVE_CARDDETECT /\ c0.priv.probed /\ SDIO_PRESENT(c0)
  THEN Ret(c0, OK)
  ELSE
  Let(mmcsd_removed(c0), LAMBDA c1 :
    IF ~SDIO_PRESENT(c1)
    THEN Ret(CallbackEnable(c1, "INSERTED"), -ENODEV)
    ELSE
    Let(mmcsd_cardidentify(c1), LAMBDA c2 :
      IF c2.ret # OK
      THEN Ret(CallbackEnable(c2, "EJECTED"), c2.ret)
      ELSE Probed(Initialize(c2))))

(***************************************************************************)
(* MMC_IOC_CMD.                                                            *)
(***************************************************************************)
mmcsd_general_cmd_write(c0, a) ==
  IF mmcsd_wrprotected(c0)
  THEN Ret(SDIO_WRPROTECTED(c0), -EPERM)
  ELSE
  Bind(DmaPreflight(SDIO_WRPROTECTED(c0)), LAMBDA c2 :
  Bind(mmcsd_transferready(c2), LAMBDA c3 :
  Bind(mmcsd_setblocklen(c3, c3.priv.blocksize), LAMBDA c4 :
  Bind(IF ~DmaBeforeWrite(c4)
       THEN DataCmd(c4, "CMD56WR", a, FALSE)
       ELSE c4, LAMBDA c5 :
  Bind(DmaSetup(c5, 1), LAMBDA c6 :
  Bind(IF DmaBeforeWrite(c6)
       THEN DataCmd(c6, "CMD56WR", a, TRUE)
       ELSE c6, LAMBDA c7 :
  Bind(mmcsd_eventwait(c7), LAMBDA c8 : Ret(WriteStarted(c8), OK))))))))

\* A mark in the trace at the label __exit of mmcsd_general_cmd_read: the
\* error number in ret when the label is reached (0 for OK).
ReadExit(c) == HostCall(c, "general_cmd_read:exit", Arg(-c.ret))

\* Past the lock check and the DMA preflight, every path returns OK.
mmcsd_general_cmd_read(c0, a) ==
  IF c0.priv.locked
  THEN Ret(c0, -EPERM)
  ELSE
  Bind(DmaPreflight(c0), LAMBDA c2 :
    Ret(ReadExit(
        Bind(mmcsd_transferready(c2), LAMBDA c3 :
        Bind(mmcsd_setblocklen(c3, c3.priv.blocksize), LAMBDA c4 :
        Bind(DmaSetup(c4, 1), LAMBDA c5 :
        Bind(DataCmd(c5, "CMD56RD", a, TRUE), LAMBDA c6 :
          mmcsd_eventwait(c6)))))), OK))

\* The return value of CMD18 / CMD25 through MMC_IOC_CMD: OK when all the
\* blocks were transferred.
AllBlocks(r, blocks) == IF r.ret = blocks THEN Ret(r, OK) ELSE r

\* ic is the struct mmc_ioc_cmd: opcode, arg, blocks, write_flag.
mmcsd_iocmd(c, part, ic) ==
  CASE ic.opcode = 0 -> Ret(mmcsd_sendcmdpoll(c, "CMD0", Arg(ic.arg)), OK)
    [] ic.opcode = 2 -> Ret(c, OK)
    [] ic.opcode = 6 -> mmcsd_switch(c, ic.arg)
    [] ic.opcode = 8 -> mmcsd_read_extcsd(c)
    [] ic.opcode = 13 -> mmcsd_get_r1(c, IF Dev(c) = "ALT" THEN "STBY"
                                                           ELSE "TRAN")
    [] ic.opcode = 18 ->
         IF ic.blocks > 0
         THEN AllBlocks(mmcsd_readmultiple(c, part, ic.arg, ic.blocks),
                        ic.blocks)
         ELSE Ret(c, OK)
    [] ic.opcode = 23 ->
         mmcsd_setblockcount(c, Arg(IF ic.blocks # 0 THEN ic.blocks
                                                     ELSE ic.arg))
    [] ic.opcode = 25 ->
         IF ic.blocks > 0
         THEN AllBlocks(mmcsd_writemultiple(c, part, ic.arg, ic.blocks),
                        ic.blocks)
         ELSE Ret(c, OK)
    [] ic.opcode = 56 ->
         IF ic.write_flag
         THEN mmcsd_general_cmd_write(c, Arg(ic.arg))
         ELSE mmcsd_general_cmd_read(c, Arg(ic.arg))
    [] OTHER -> Ret(c, -EINVAL)

(***************************************************************************)
(* Scripts: what the host and the card answer during one step.             *)
(*   at, what  the interaction (numbered from 1 in the order the step      *)
(*             makes them) that deviates, and how: an R1 with an error     *)
(*             bit (IOERR), with CARD_IS_LOCKED too (LOCKED), a failure    *)
(*             reported by the host (HOSTERR), or the other outcome the    *)
(*             interaction has (ALT: an unexpected card state, a timeout   *)
(*             event, a CMD8 echo mismatch)                                *)
(*   busy, kind, expire  the busy answers a poll loop sees first, and      *)
(*             whether the loop runs out of time after them                *)
(*   stop      the answer to CMD12                                         *)
(*   hostwp    the write protect switch read by SDIO_WRPROTECTED           *)
(***************************************************************************)
Nominal ==
  [at |-> 0, what |-> "OK", busy |-> 0, kind |-> "PRG", expire |-> FALSE,
   stop |-> "OK", hostwp |-> FALSE, absent |-> FALSE]

Devs(k) ==
  {<<0, "OK">>} \cup ((1 .. k) \X {"IOERR", "LOCKED", "HOSTERR", "ALT"})

Busies ==
  {<<0, "PRG", FALSE>>} \cup ((1 .. MaxBusy) \X {"PRG", "RCV"} \X BOOLEAN)

\* The scripts of a step that has k interaction points: one deviation at
\* one point, with (where a CMD12 can follow) each answer to the CMD12; or
\* a card that is still busy at the first polls; or a host whose
\* write-protect switch is on.
Scripts(k, polls, stops, wps) ==
  {[Nominal EXCEPT !.at = d[1], !.what = d[2], !.stop = st] :
     d \in Devs(k),
     st \in IF stops THEN {"OK", "IOERR", "LOCKED", "HOSTERR"} ELSE {"OK"}}
  \cup {[Nominal EXCEPT !.busy = b[1], !.kind = b[2], !.expire = b[3]] :
          b \in IF polls THEN Busies ELSE {}}
  \cup {[Nominal EXCEPT !.hostwp = TRUE] : w \in IF wps THEN {1} ELSE {}}

(***************************************************************************)
(* History kept for the statement of properties: the argument of the last  *)
(* CMD16 sent and of the last CMD16 the card accepted, the partition       *)
(* selected by the last CMD6 write to PARTITION_CONFIG, and whether a      *)
(* write transfer has succeeded with no command sent since.                *)
(***************************************************************************)
Commands ==
  {"CMD0", "CMD1", "CMD2", "CMD3", "CMD6", "CMD7", "CMD8", "CMD9", "CMD12",
   "CMD13", "CMD16", "CMD17", "CMD18", "CMD23", "CMD24", "CMD25", "CMD55",
   "CMD56WR", "CMD56RD", "ACMD6", "ACMD23", "ACMD41", "ACMD42", "ACMD51"}

IsCmd(e) == e.cmd \in Commands

IsPartConf(e) ==
  /\ e.cmd = "CMD6"
  /\ Cmd6Mode(e.arg.low) = MMC_CMD6_MODE_WRITE_BYTE
  /\ Cmd6Index(e.arg.low) = EXT_CSD_PART_CONF

\* The indices of the trace entries that satisfy P.
Where(log, P(_)) == {i \in 1 .. Len(log) : P(log[i])}

Last(S) == CHOOSE i \in S : \A j \in S : j <= i

First(S) == CHOOSE i \in S : \A j \in S : i <= j

IsCmd16(e) == e.cmd = "CMD16"

IsCmd16Ok(e) == e.cmd = "CMD16" /\ e.resp = "OK"

History(h, log, wrote) ==
  LET s16 == Where(log, IsCmd16)
      s16ok == Where(log, IsCmd16Ok)
      s6 == Where(log, IsPartConf)
  IN  [cmd16 |-> IF s16 = {} THEN h.cmd16 ELSE log[Last(s16)].arg.low,
       cmd16ok |-> IF s16ok = {} THEN h.cmd16ok
                   ELSE log[Last(s16ok)].arg.low,
       partconf |-> IF s6 = {} THEN h.partconf
                    ELSE Cmd6Value(log[Last(s6)].arg.low),
       wrdone |-> IF wrote THEN TRUE
                  ELSE IF Where(log, IsCmd) # {} THEN FALSE
                  ELSE h.wrdone,
       geom |-> h.geom]

\* No probe has been recorded yet.
NoGeom ==
  [card |-> "NONE", part |-> [i \in Parts |-> 0], blocksize |-> 0,
   type |-> MMCSD_CARDTYPE_UNKNOWN, reg |-> {}]

IsIdentify(e) == e.cmd = "SDIO_CLOCK_IDMODE"

\* The geometry a probe left, recorded when the step identified and
\* initialized the card with every answer as expected: the card, the
\* partition sizes, the block size, the card type and the registered names.
Snapshot(g, c) ==
  IF Where(c.sdio, IsIdentify) # {} /\ c.priv.mediachanged
     /\ c.in.at = 0 /\ ~c.in.expire /\ c.in.stop = "OK"
  THEN [card |-> c.card, part |-> c.priv.part,
        blocksize |-> c.priv.blocksize, type |-> c.priv.type,
        reg |-> c.reg]
  ELSE g

(***************************************************************************)
(* State.                                                                  *)
(***************************************************************************)
Threads == {1, 2}

\* The start sector callers pass.
StartBlock == 5

StartBlocks == {StartBlock}

\* The builds, hosts and cards considered: whether
\* CONFIG_MMCSD_HAVE_CARDDETECT is set, SDIO_CAPABILITIES, and the card
\* that goes in and out of the slot.
Setup(cd, caps, card_) ==
  [HAVE_CARDDETECT |-> cd, caps |-> caps, card |-> card_]

DmaCaps == {"DMASUPPORTED", "DMABEFOREWRITE", "4BIT_ONLY", "MMC_HS_MODE"}

Setups ==
  {Setup(TRUE, DmaCaps, "SDV1"), Setup(FALSE, {"4BIT"}, "SDHC"),
   Setup(TRUE, {"4BIT"}, "EMMC"), Setup(FALSE, DmaCaps, "EMMC"),
   Setup(TRUE, {"4BIT"}, "MMCWP")}

\* struct geometry after memset(geometry, 0, sizeof(*geometry)).
NoGeometry ==
  [available |-> FALSE, mediachanged |-> FALSE, writeenabled |-> FALSE,
   nsectors |-> 0, sectorsize |-> 0]

Idle ==
  [pc |-> "idle", op |-> "-", part |-> 0, sector |-> 0, endsector |-> 0,
   nsectors |-> 0, left |-> 0, ret |-> 0, ctx |-> "thread", held |-> FALSE,
   cmds |-> 0, geo |-> NoGeometry]

\* struct mmcsd_state_s after memset(priv, 0, ...) in mmcsd_slotinitialize.
ZeroState ==
  [type |-> MMCSD_CARDTYPE_UNKNOWN, rca |-> 0, blocksize |-> 0,
   blockshift |-> 0, buswidth |-> 0, widebus |-> FALSE, selblocklen |-> 0,
   dsrimp |-> FALSE, wrprotect |-> FALSE, locked |-> FALSE,
   wrbusy |-> FALSE, cmd23support |-> FALSE, partnum |-> 0,
   part |-> [i \in Parts |-> 0], crefs |-> 0, probed |-> FALSE,
   mediachanged |-> FALSE, caps |-> {}]

\* The state mmcsd_slotinitialize starts from, in one of the given setups
\* and with f deviations already spent.
InitWith(setups, f) ==
  /\ priv = ZeroState
  /\ config \in setups
  /\ card \in {"NONE", config.card}
  /\ attached = "no"
  /\ registered = {}
  /\ inodes = {}
  /\ lock = 0
  /\ cur = [t \in Threads |-> Idle]
  /\ sdio = <<>>
  /\ hist = [cmd16 |-> -1, cmd16ok |-> -1, partconf |-> -1, wrdone |-> FALSE,
             geom |-> NoGeom]
  /\ faults = f

Init == InitWith(Setups, 0)

Start(in) == Ctx(priv, card, registered, config, in)

IsFault(in) == in.at # 0 \/ in.expire \/ in.stop # "OK" \/ in.absent

\* The scripts a step may get: deviations only while the budget lasts.
Budget(S) == IF faults < MaxFaults THEN S ELSE {in \in S : ~IsFault(in)}

\* The effect of a step on the driver state, the trace and the history.
Apply(c, wrote) ==
  /\ faults' = IF IsFault(c.in) THEN faults + 1 ELSE faults
  /\ priv' = c.priv
  /\ registered' = c.reg
  /\ inodes' = inodes \cup c.reg
  /\ sdio' = c.sdio
  /\ hist' = [History(hist, c.sdio, wrote) EXCEPT
                !.geom = Snapshot(hist.geom, c)]

Done(me, r) == [me EXCEPT !.pc = "done", !.ret = r]

(***************************************************************************)
(* The environment: a card is pushed into or pulled out of the slot.       *)
(***************************************************************************)
CardInsert ==
  /\ card = "NONE"
  /\ card' = config.card
  /\ sdio' = <<>>
  /\ UNCHANGED <<priv, config, attached, registered, inodes, lock, cur, hist,
                 faults>>

CardRemove ==
  /\ card # "NONE"
  /\ card' = "NONE"
  /\ sdio' = <<>>
  /\ UNCHANGED <<priv, config, attached, registered, inodes, lock, cur, hist,
                 faults>>

\* Another card than the one of the setup is pushed into the empty slot.
OtherCard == "SDHC"

CardInsertOther ==
  /\ card = "NONE"
  /\ card' = OtherCard
  /\ sdio' = <<>>
  /\ UNCHANGED <<priv, config, attached, registered, inodes, lock, cur, hist,
                 faults>>

(***************************************************************************)
(* Entering and leaving a handler.                                         *)
(***************************************************************************)
Requests(ctxs, ops) ==
  [op : {"open", "close", "geometry", "ioctl"} \cap ops, part : inodes,
   sector : {0}, nsectors : {1}, ctx : ctxs]
  \cup [op : {"geometry"} \cap ops, part : inodes, sector : {0},
        nsectors : {0}, ctx : ctxs]
  \cup [op : {"read", "write"} \cap ops, part : inodes, sector : StartBlocks,
        nsectors : 0 .. MaxSectors, ctx : ctxs]
  \cup [op : {"mediachange", "hwinitialize"} \cap ops, part : {0},
        sector : {0}, nsectors : {1}, ctx : ctxs]

\* What the caller may ask for: references are counted by open and close
\* (the count explored is capped).
Allowed(req) ==
  /\ attached = IF req.op = "hwinitialize" THEN "no" ELSE "yes"
  /\ req.op = "open" => priv.crefs < MaxOpen
  /\ req.op = "close" => priv.crefs > 0

Request(t, req) ==
  [Idle EXCEPT !.pc = "lock", !.op = req.op, !.part = req.part,
               !.sector = req.sector, !.nsectors = req.nsectors,
               !.endsector = req.sector + req.nsectors, !.ctx = req.ctx]

\* A caller enters one of the driver's entry points.
Call(t, ctxs, ops) ==
  /\ cur[t].pc = "idle"
  /\ \E req \in Requests(ctxs, ops) :
       /\ Allowed(req)
       /\ req.nsectors > 0
       /\ cur' = [cur EXCEPT ![t] = Request(t, req)]
       /\ attached' = IF req.op = "hwinitialize" THEN "init" ELSE attached
  /\ sdio' = <<>>
  /\ UNCHANGED <<priv, card, config, registered, inodes, lock, hist, faults>>

\* Mutation of mmcsd_lock: the mutex is taken without waiting for it.
LockTaken_NoWait(t) == lock' = t

\* nxmutex_lock(): the caller waits while another holds the mutex.
LockTaken(t) == lock = 0 /\ lock' = t

\* mmcsd_lock(): a thread takes the mutex; in interrupt context or in the
\* idle task nothing is taken.
mmcsd_lock(t) ==
  /\ cur[t].pc = "lock"
  /\ IF cur[t].ctx = "thread" THEN LockTaken(t) ELSE lock' = lock
  /\ cur' = [cur EXCEPT ![t].pc = "body",
                        ![t].held = (cur[t].ctx = "thread")]
  /\ sdio' = <<>>
  /\ UNCHANGED <<priv, card, config, attached, registered, inodes, hist,
                 faults>>

\* mmcsd_read / mmcsd_write of no sector and mmcsd_geometry without a
\* geometry structure return without taking the mutex.
ReturnEarly(t, ctxs, ops) ==
  /\ cur[t].pc = "idle"
  /\ \E req \in Requests(ctxs, ops) :
       /\ Allowed(req)
       /\ req.nsectors = 0
       /\ cur' = [cur EXCEPT ![t] =
                    [Request(t, req) EXCEPT
                       !.pc = "done",
                       !.ret = IF req.op = "geometry" THEN -EINVAL ELSE 0]]
  /\ sdio' = <<>>
  /\ UNCHANGED <<priv, card, config, attached, registered, inodes, lock, hist,
                 faults>>

\* Mutation of mmcsd_unlock: the caller returns without nxmutex_unlock.
Unlock_Keep(t) ==
  /\ cur[t].pc = "done"
  /\ lock' = lock
  /\ cur' = [cur EXCEPT ![t] = Idle]
  /\ sdio' = <<>>
  /\ UNCHANGED <<priv, card, config, attached, registered, inodes, hist,
                 faults>>

\* mmcsd_unlock(), the last statement of every return path of a handler
\* past mmcsd_lock: a thread gives the mutex back.
mmcsd_unlock(t) ==
  /\ cur[t].pc = "done"
  /\ lock' = IF cur[t].held THEN 0 ELSE lock
  /\ cur' = [cur EXCEPT ![t] = Idle]
  /\ sdio' = <<>>
  /\ UNCHANGED <<priv, card, config, attached, registered, inodes, hist,
                 faults>>

(***************************************************************************)
(* The handlers, run with the mutex held.                                  *)
(***************************************************************************)
Running(t, op) == cur[t].pc = "body" /\ cur[t].op = op

\* slotinitialize enables the insertion callback when hwinitialize
\* returned -ENODEV; any other failure frees the driver.
mmcsd_hwinitialize(t) ==
  /\ Running(t, "hwinitialize")
  /\ \E attach \in BOOLEAN :
       LET c0 == Start(Nominal)
           c1 == [c0 EXCEPT !.priv.caps = config.caps]
           k == mmcsd_probe(c1).n
       IN  IF ~attach
           THEN /\ Apply(c1, FALSE)
                /\ attached' = "failed"
                /\ cur' = [cur EXCEPT ![t] = Done(@, -EBUSY)]
           ELSE \E in \in Budget(Scripts(k, card # "NONE", FALSE, FALSE)) :
                  LET c2 == [c1 EXCEPT !.in = in]
                      c3 == IF SDIO_PRESENT(c2) THEN mmcsd_probe(c2) ELSE c2
                      r == IF SDIO_PRESENT(c2) /\ c3.ret = OK
                           THEN OK ELSE -ENODEV
                      c4 == IF r = OK
                            THEN c3
                            ELSE HostCall(c3, "SDIO_CALLBACKENABLE_INSERTED",
                                          Arg(0))
                  IN  /\ Apply(c4, FALSE)
                      /\ attached' = "yes"
                      /\ cur' = [cur EXCEPT ![t] = Done(@, r)]
  /\ UNCHANGED <<card, config, lock>>

mmcsd_open(t) ==
  /\ Running(t, "open")
  /\ priv' = [priv EXCEPT !.crefs = (@ + 1) % 256]
  /\ cur' = [cur EXCEPT ![t] = Done(@, OK)]
  /\ sdio' = <<>>
  /\ UNCHANGED <<card, config, attached, registered, inodes, lock, hist,
                 faults>>

mmcsd_close(t) ==
  /\ Running(t, "close")
  /\ priv' = [priv EXCEPT !.crefs = (@ + 255) % 256]
  /\ cur' = [cur EXCEPT ![t] = Done(@, OK)]
  /\ sdio' = <<>>
  /\ UNCHANGED <<card, config, attached, registered, inodes, lock, hist,
                 faults>>

Min(a, b) == IF a < b THEN a ELSE b

DataCmds == {"CMD17", "CMD18", "CMD24", "CMD25"}

\* Mutation: every pass of the loop transfers one block.
ReadChunk_OneBlock(c, me) == mmcsd_readsingle(c, me.part, me.sector)

\* One pass of the loop of mmcsd_read.
ReadChunk(c, me) ==
  LET n == Min(me.endsector - me.sector, MMCSD_MULTIBLOCK_LIMIT)
  IN  IF n = 1
      THEN mmcsd_readsingle(c, me.part, me.sector)
      ELSE mmcsd_readmultiple(c, me.part, me.sector, n)

\* Mutation: every pass of the loop uses the multiple block method.
WriteChunk_Multiple(c, me) ==
  mmcsd_writemultiple(c, me.part, me.sector,
                      Min(me.endsector - me.sector, MMCSD_MULTIBLOCK_LIMIT))

\* One pass of the loop of mmcsd_write.
WriteChunk(c, me) ==
  LET n == Min(me.endsector - me.sector, MMCSD_MULTIBLOCK_LIMIT)
  IN  IF n = 1
      THEN mmcsd_writesingle(c, me.part, me.sector)
      ELSE mmcsd_writemultiple(c, me.part, me.sector, n)

IsDataCmd(e) == e.cmd \in DataCmds

\* The data commands the call has sent so far, those of this pass included.
Counted(me, log) ==
  [me EXCEPT !.cmds = @ + Cardinality(Where(log, IsDataCmd))]

\* Mutation: a failed pass ends the call with the number of blocks
\* transferred before it.
Advance_PartialCount(me, r) ==
  IF r < 0
  THEN Done(me, me.sector - (me.endsector - me.nsectors))
  ELSE IF me.sector + r >= me.endsector
  THEN [Done(me, me.nsectors) EXCEPT !.sector = @ + r]
  ELSE [me EXCEPT !.sector = @ + r]

\* The loop variable after a pass that returned r.
Advance(me, r) ==
  IF r < 0
  THEN Done(me, r)
  ELSE IF me.sector + r >= me.endsector
  THEN [Done(me, me.nsectors) EXCEPT !.sector = @ + r]
  ELSE [me EXCEPT !.sector = @ + r]

Polls(part) == priv.wrbusy \/ priv.partnum # part

Stops(n) == IS_SD(priv.type) /\ ~priv.cmd23support /\ n > 1

mmcsd_read(t) ==
  /\ Running(t, "read")
  /\ LET me == cur[t]
         k == ReadChunk(Start(Nominal), me).n
     IN  \E in \in Budget(Scripts(k, Polls(me.part),
                                   Stops(me.endsector - me.sector), FALSE)) :
           LET c == ReadChunk(Start(in), me)
           IN  /\ Apply(c, FALSE)
               /\ cur' = [cur EXCEPT ![t] =
                            Advance(Counted(me, c.sdio), c.ret)]
  /\ UNCHANGED <<card, config, attached, lock>>

mmcsd_write(t) ==
  /\ Running(t, "write")
  /\ LET me == cur[t]
         k == WriteChunk(Start(Nominal), me).n
     IN  \E in \in Budget(Scripts(k, Polls(me.part),
                                   Stops(me.endsector - me.sector), TRUE)) :
           LET c == WriteChunk(Start(in), me)
           IN  /\ Apply(c, c.ret > 0)
               /\ cur' = [cur EXCEPT ![t] =
                            Advance(Counted(me, c.sdio), c.ret)]
  /\ UNCHANGED <<card, config, attached, lock>>

\* struct geometry of partition partnum as mmcsd_geometry fills it in.
GeometryOf(c, partnum) ==
  [available |-> TRUE, mediachanged |-> c.priv.mediachanged,
   writeenabled |-> ~mmcsd_wrprotected(c),
   nsectors |-> c.priv.part[partnum], sectorsize |-> c.priv.blocksize]

\* Mutation: the media change stays flagged after it was reported.
MediaReported_KeepsFlag(c) == c

\* priv->mediachanged = false once the geometry has been filled in.
MediaReported(c) == [c EXCEPT !.priv.mediachanged = FALSE]

mmcsd_geometry(t) ==
  /\ Running(t, "geometry")
  /\ IF IS_EMPTY(priv)
     THEN /\ cur' = [cur EXCEPT ![t] = Done(@, -ENODEV)]
          /\ sdio' = <<>>
          /\ UNCHANGED <<priv, registered, inodes, hist, faults>>
     ELSE \E in \in Budget(Scripts(0, FALSE, FALSE, TRUE)) :
            /\ Apply(MediaReported(SDIO_WRPROTECTED(Start(in))), FALSE)
            /\ cur' = [cur EXCEPT ![t] =
                         [Done(@, OK) EXCEPT
                            !.geo = GeometryOf(Start(in), cur[t].part)]]
  /\ UNCHANGED <<card, config, attached, lock>>

\* The MMC_IOC_CMD requests callers make.
Ioc(opcode, a, blocks, wf) ==
  [opcode |-> opcode, arg |-> a, blocks |-> blocks, write_flag |-> wf]

PartConfArg(v) ==
  MMC_CMD6_MODE(MMC_CMD6_MODE_WRITE_BYTE) + MMC_CMD6_INDEX(EXT_CSD_PART_CONF)
  + MMC_CMD6_VALUE(v)

IocCmds ==
  {Ioc(0, 0, 0, FALSE), Ioc(2, 0, 0, FALSE), Ioc(8, 0, 0, FALSE),
   Ioc(13, 0, 0, FALSE), Ioc(99, 0, 0, FALSE),
   Ioc(6, PartConfArg(MMCSD_PART_UDATA), 0, FALSE),
   Ioc(6, PartConfArg(MMCSD_PART_RPMB), 0, FALSE),
   Ioc(6, MMC_CMD6_MODE(MMC_CMD6_MODE_WRITE_BYTE)
          + MMC_CMD6_INDEX(EXT_CSD_BUS_WIDTH) + MMC_CMD6_VALUE(1), 0, FALSE),
   Ioc(18, StartBlock, 0, FALSE), Ioc(18, StartBlock, 2, FALSE),
   Ioc(23, 3, 0, FALSE), Ioc(23, 0, 2, FALSE),
   Ioc(25, StartBlock, 0, FALSE), Ioc(25, StartBlock, 2, FALSE),
   Ioc(56, 0, 0, TRUE), Ioc(56, 0, 0, FALSE)}

\* The commands explored inside a batch of MMC_IOC_MULTI_CMD.
BatchCmds ==
  {Ioc(13, 0, 0, FALSE), Ioc(99, 0, 0, FALSE),
   Ioc(6, PartConfArg(MMCSD_PART_RPMB), 0, FALSE),
   Ioc(25, StartBlock, 2, FALSE)}

IocScripts(part, ic) ==
  Budget(Scripts(mmcsd_iocmd(Start(Nominal), part, ic).n,
                 priv.wrbusy
                   \/ (ic.opcode \in {18, 25} /\ priv.partnum # part),
                 ic.opcode \in {18, 25} /\ Stops(ic.blocks),
                 ic.opcode = 25 \/ (ic.opcode = 56 /\ ic.write_flag)))

\* A write transfer made through MMC_IOC_CMD has succeeded.
IocWrote(ic, c) ==
  /\ c.ret = OK
  /\ (ic.opcode = 25 /\ ic.blocks > 0) \/ (ic.opcode = 56 /\ ic.write_flag)

\* Whether mmcsd_probe would return at once.
ProbeSkipped ==
  config.HAVE_CARDDETECT /\ priv.probed /\ card # "NONE"

\* The scripts of a probe: those of its interaction points and, when the
\* card is identified, a card detect that reads "absent" by the time
\* mmcsd_cardidentify looks at it.
ProbeScripts ==
  Budget(Scripts(mmcsd_probe(Start(Nominal)).n,
                 ~ProbeSkipped /\ card # "NONE", FALSE, FALSE)
         \cup {[Nominal EXCEPT !.absent = TRUE] :
                 w \in IF ~ProbeSkipped /\ card # "NONE" THEN {1} ELSE {}})

\* Mutation: the insertion callback is not enabled after the removal.
Eject_NoRearm(c) == mmcsd_removed(c)

\* mmcsd_removed, then SDIO_CALLBACKENABLE(SDIOMEDIA_INSERTED).
Eject(c) == HostCall(mmcsd_removed(c), "SDIO_CALLBACKENABLE_INSERTED", Arg(0))

\* mmcsd_multi_iocmd before its loop: a batch of num commands, of which
\* left are still to be executed.
BatchStart(me, num) ==
  LET b == [me EXCEPT !.op = "multi_iocmd", !.left = num]
  IN  IF num > MMC_IOC_MAX_CMDS THEN Done(b, -EINVAL)
      ELSE IF num = 0 THEN Done(b, OK)
      ELSE b

\* A mark in the trace where a command of the batch returns: the error
\* number mmcsd_iocmd returned (0 for OK).
Returned(c) == HostCall(c, "iocmd", Arg(-c.ret))

\* Mutation: the loop goes on after a command that failed.
BatchNext_GoesOn(me, r) ==
  IF me.left = 1 THEN Done(me, r) ELSE [me EXCEPT !.left = @ - 1]

\* The loop of mmcsd_multi_iocmd after a command that returned r.
BatchNext(me, r) ==
  IF r # OK THEN Done(me, r)
  ELSE IF me.left = 1 THEN Done(me, OK)
  ELSE [me EXCEPT !.left = @ - 1]

mmcsd_ioctl(t) ==
  /\ Running(t, "ioctl")
  /\ \/ \E in \in ProbeScripts :
          LET c == mmcsd_probe(Start(in))
          IN  Apply(c, FALSE) /\ cur' = [cur EXCEPT ![t] = Done(@, c.ret)]
     \/ LET c == Eject(Start(Nominal))
        IN  /\ Apply(c, FALSE)
            /\ cur' = [cur EXCEPT ![t] =
                         Done([@ EXCEPT !.op = "BIOC_EJECT"], OK)]
     \/ \E ic \in IocCmds :
          \E in \in IocScripts(cur[t].part, ic) :
            LET c == mmcsd_iocmd(Start(in), cur[t].part, ic)
            IN  /\ Apply(c, IocWrote(ic, c))
                /\ cur' = [cur EXCEPT ![t] = Done(@, c.ret)]
     \/ \E num \in (0 .. MaxBatch) \cup {MMC_IOC_MAX_CMDS + 1} :
          /\ Apply(Start(Nominal), FALSE)
          /\ cur' = [cur EXCEPT ![t] = BatchStart(@, num)]
     \/ /\ Apply(Start(Nominal), FALSE)
        /\ cur' = [cur EXCEPT ![t] = Done(@, -ENOTTY)]
  /\ UNCHANGED <<card, config, attached, lock>>

\* One pass of the loop of mmcsd_multi_iocmd.
mmcsd_multi_iocmd(t) ==
  /\ Running(t, "multi_iocmd")
  /\ \E ic \in BatchCmds :
       \E in \in IocScripts(cur[t].part, ic) :
         LET c == Returned(mmcsd_iocmd(Start(in), cur[t].part, ic))
         IN  /\ Apply(c, IocWrote(ic, c))
             /\ cur' = [cur EXCEPT ![t] = BatchNext(@, c.ret)]
  /\ UNCHANGED <<card, config, attached, lock>>

mmcsd_mediachange(t) ==
  /\ Running(t, "mediachange")
  /\ \E in \in ProbeScripts :
       LET c == IF card # "NONE"
                THEN mmcsd_probe(Start(in))
                ELSE Eject(Start(in))
       IN  Apply(c, FALSE) /\ cur' = [cur EXCEPT ![t] = Done(@, OK)]
  /\ UNCHANGED <<card, config, attached, lock>>

(***************************************************************************)
(* Specifications.                                                         *)
(***************************************************************************)
AllOps ==
  {"hwinitialize", "open", "close", "read", "write", "geometry", "ioctl",
   "mediachange"}

Step(t, ctxs, ops) ==
  \/ Call(t, ctxs, ops)
  \/ ReturnEarly(t, ctxs, ops)
  \/ mmcsd_lock(t)
  \/ mmcsd_hwinitialize(t)
  \/ mmcsd_open(t)
  \/ mmcsd_close(t)
  \/ mmcsd_read(t)
  \/ mmcsd_write(t)
  \/ mmcsd_geometry(t)
  \/ mmcsd_ioctl(t)
  \/ mmcsd_multi_iocmd(t)
  \/ mmcsd_mediachange(t)
  \/ mmcsd_unlock(t)

Environment ==
  \/ CardInsert
  \/ CardRemove

\* One caller at a time.
Next == Step(1, {"thread"}, AllOps) \/ Environment

Spec == Init /\ [][Next]_vars

\* Two callers in thread context on one slot, with one card and a host
\* that answers as expected; the second caller transfers data and reports
\* media changes.
ConcSetups == {Setup(TRUE, {"4BIT"}, "EMMC")}

ConcOps == {"read", "write", "mediachange"}

InitConc == InitWith(ConcSetups, MaxFaults)

NextConc ==
  \/ Step(1, {"thread"}, AllOps)
  \/ Step(2, {"thread"}, ConcOps)
  \/ Environment

SpecConc == InitConc /\ [][NextConc]_vars

\* One caller on a slot whose eMMC can be replaced by an SD card, with a
\* host that answers as expected.
InitSwap == InitWith(ConcSetups, MaxFaults)

NextSwap == Next \/ CardInsertOther

SpecSwap == InitSwap /\ [][NextSwap]_vars

\* A caller that opens the device any number of times and closes what it
\* has opened, on a slot with one card and a host that answers as
\* expected.  DEBUGASSERT is compiled out: nothing stops an open at
\* MAX_CREFS.
RefOps == {"hwinitialize", "close"}

OpenCall(t) ==
  /\ cur[t].pc = "idle"
  /\ attached = "yes"
  /\ \E p \in inodes :
       cur' = [cur EXCEPT ![t] =
                 Request(t, [op |-> "open", part |-> p, sector |-> 0,
                             nsectors |-> 1, ctx |-> "thread"])]
  /\ sdio' = <<>>
  /\ UNCHANGED <<priv, card, config, attached, registered, inodes, lock, hist,
                 faults>>

RefStep(t) ==
  \/ Call(t, {"thread"}, RefOps)
  \/ OpenCall(t)
  \/ mmcsd_lock(t)
  \/ mmcsd_hwinitialize(t)
  \/ mmcsd_open(t)
  \/ mmcsd_close(t)
  \/ mmcsd_unlock(t)

InitRefs == InitWith(ConcSetups, MaxFaults)

NextRefs == RefStep(1)

SpecRefs == InitRefs /\ [][NextRefs]_vars

\* MMC cards of every kind of CSD, probed when the driver is attached and
\* when the media changes, with a host that may fail once.
MmcSetups ==
  {Setup(TRUE, {"4BIT"}, "MMCWP"), Setup(TRUE, {"4BIT"}, "EMMC"),
   Setup(TRUE, DmaCaps, "MMC2G"), Setup(FALSE, {"4BIT"}, "EMMCLO")}

ProbeOps == {"hwinitialize", "mediachange"}

ProbeStep(t) ==
  \/ Call(t, {"thread"}, ProbeOps)
  \/ mmcsd_lock(t)
  \/ mmcsd_hwinitialize(t)
  \/ mmcsd_mediachange(t)
  \/ mmcsd_unlock(t)

InitMmc == InitWith(MmcSetups, 0)

NextMmc == ProbeStep(1) \/ Environment

SpecMmc == InitMmc /\ [][NextMmc]_vars

\* SD cards of every kind, one of them answering ACMD41 with HCS set
\* without having answered CMD8.
SdSetups ==
  {Setup(TRUE, {"4BIT"}, "SDODD"), Setup(TRUE, {"4BIT"}, "SDHC"),
   Setup(FALSE, DmaCaps, "SDV1")}

InitSd == InitWith(SdSetups, 0)

SpecSd == InitSd /\ [][NextMmc]_vars

(***************************************************************************)
(* mmcsd_transferready() taken one statement group at a time, with the     *)
(* system tick advancing beside it.  The caller is at "entry" (the tests   *)
(* on IS_EMPTY, SDIO_PRESENT and wrbusy), at "poll" (mmcsd_get_r1 and the   *)
(* test of the state), at "sleep" (MMCSD_USLEEP / sched_yield, then the     *)
(* computation of elapsed and the loop condition) or at "ret".  The card   *)
(* answers each CMD13 with any state or with an error.                     *)
(***************************************************************************)
R1States ==
  {"IDLE", "READY", "IDENT", "STBY", "TRAN", "DATA", "RCV", "PRG", "DIS"}

R1Answers == {"OK", "IOERR", "LOCKED", "HOSTERR"}

ReadyCall(ticks) ==
  [pc |-> "entry", op |-> "transferready", ticks |-> ticks, starttime |-> 0,
   elapsed |-> 0, ret |-> OK]

\* The state of a slot whose card has been probed.
AfterProbe(cfg) == mmcsd_probe(Ctx(ZeroState, cfg.card, {}, cfg, Nominal))

InitReady ==
  /\ config \in Setups
  /\ \E wasprobed \in BOOLEAN, busy \in BOOLEAN :
       IF wasprobed
       THEN /\ priv = [AfterProbe(config).priv EXCEPT !.wrbusy = busy]
            /\ registered = AfterProbe(config).reg
       ELSE /\ priv = ZeroState
            /\ registered = {}
  /\ card \in {"NONE", config.card}
  /\ attached = "yes"
  /\ inodes = registered
  /\ lock = 1
  /\ \E ticks \in 0 .. MaxStart :
       cur = [t \in Threads |-> IF t = 1 THEN ReadyCall(ticks) ELSE Idle]
  /\ sdio = <<>>
  /\ hist = [cmd16 |-> -1, cmd16ok |-> -1, partconf |-> -1, wrdone |-> FALSE,
             geom |-> NoGeom]
  /\ faults = 0

Returns(me, r) == [me EXCEPT !.pc = "ret", !.ret = r]

\* "if (IS_EMPTY(priv) || !SDIO_PRESENT(priv->dev))", "else if
\* (!priv->wrbusy)", "starttime = clock_systime_ticks()".
ReadyEnter(t) ==
  /\ cur[t].pc = "entry"
  /\ cur' = [cur EXCEPT ![t] =
               IF IS_EMPTY(priv) \/ ~SDIO_PRESENT(Start(Nominal))
               THEN Returns(@, -ENODEV)
               ELSE IF ~priv.wrbusy
               THEN Returns(@, OK)
               ELSE [@ EXCEPT !.pc = "poll", !.starttime = cur[t].ticks]]
  /\ sdio' = <<>>
  /\ UNCHANGED <<priv, card, config, attached, registered, inodes, lock,
                 hist, faults>>

\* The body of the loop up to the sleep: mmcsd_get_r1 and the tests of the
\* state it returned.
ReadyPoll(t) ==
  /\ cur[t].pc = "poll"
  /\ \E d \in R1Answers, state \in R1States :
       LET c == mmcsd_get_r1(Start([Nominal EXCEPT !.at = 1, !.what = d]),
                             state)
       IN  /\ sdio' = c.sdio
           /\ IF c.ret # OK
              THEN /\ priv' = c.priv
                   /\ cur' = [cur EXCEPT ![t] = Returns(@, c.ret)]
              ELSE IF c.r1 = "TRAN"
              THEN /\ priv' = [c.priv EXCEPT !.wrbusy = FALSE]
                   /\ cur' = [cur EXCEPT ![t] = Returns(@, OK)]
              ELSE IF c.r1 # "PRG" /\ c.r1 # "RCV"
              THEN /\ priv' = c.priv
                   /\ cur' = [cur EXCEPT ![t] = Returns(@, -EINVAL)]
              ELSE /\ priv' = c.priv
                   /\ cur' = [cur EXCEPT ![t].pc = "sleep"]
  /\ UNCHANGED <<card, config, attached, registered, inodes, lock, hist,
                 faults>>

\* Mutation of the loop condition: the loop goes on whatever time has
\* elapsed.
LoopAgain_Forever(elapsed) == TRUE

\* "while (elapsed < TICK_PER_SEC)".
LoopAgain(elapsed) == elapsed < TICK_PER_SEC

\* "elapsed = clock_systime_ticks() - starttime", the loop condition and
\* "return -ETIMEDOUT".
ReadyElapsed(t) ==
  /\ cur[t].pc = "sleep"
  /\ LET elapsed == cur[t].ticks - cur[t].starttime
     IN  cur' = [cur EXCEPT ![t] =
                   IF LoopAgain(elapsed)
                   THEN [@ EXCEPT !.pc = "poll", !.elapsed = elapsed]
                   ELSE Returns([@ EXCEPT !.elapsed = elapsed], -ETIMEDOUT)]
  /\ sdio' = <<>>
  /\ UNCHANGED <<priv, card, config, attached, registered, inodes, lock,
                 hist, faults>>

\* The system tick advances while the caller is in the loop; ticks beyond
\* starttime + TICK_PER_SEC change nothing the loop can observe.
ClockTick(t) ==
  /\ cur[t].pc \in {"poll", "sleep"}
  /\ cur[t].ticks - cur[t].starttime < TICK_PER_SEC
  /\ cur' = [cur EXCEPT ![t].ticks = @ + 1]
  /\ UNCHANGED <<priv, card, config, attached, registered, inodes, lock,
                 sdio, hist, faults>>

ReadyStep(t) == ReadyEnter(t) \/ ReadyPoll(t) \/ ReadyElapsed(t)

NextReady == ReadyStep(1) \/ ClockTick(1)

\* The caller is scheduled, and the tick advances.
SpecReady ==
  /\ InitReady
  /\ [][NextReady]_vars
  /\ WF_vars(ReadyStep(1))
  /\ WF_vars(ClockTick(1))

(***************************************************************************)
(* Properties of the wrbusy protocol.                                      *)
(***************************************************************************)
IsReadyMark(e) == e.cmd = "transferready:OK"

IsEntryMark(e) == e.cmd = "transferready"

\* C1: no CMD17, CMD18, CMD24 or CMD25 is sent while wrbusy is true:
\* before each of them mmcsd_transferready has succeeded, and from that
\* success to the data command wrbusy has stayed false.
C1_NoDataCommandWhileBusy ==
  \A i \in DOMAIN sdio :
    IsDataCmd(sdio[i]) =>
      /\ ~sdio[i].wrbusy
      /\ \E j \in 1 .. (i - 1) :
           /\ IsReadyMark(sdio[j])
           /\ \A k \in j .. i : ~sdio[k].wrbusy

\* A write that found wrbusy set by an earlier write, polled, and sent its
\* data command.
C1_Witness ==
  /\ Len(sdio) > 0
  /\ sdio[1].wrbusy
  /\ \E i \in DOMAIN sdio : sdio[i].cmd \in {"CMD24", "CMD25"}

\* C2: after a write transfer has succeeded, the first command the driver
\* sends next is CMD13, whichever operation sends it.
C2_FirstCommandAfterWriteIsCmd13 ==
  [][(hist.wrdone /\ Where(sdio', IsCmd) # {})
       => sdio'[First(Where(sdio', IsCmd))].cmd = "CMD13"]_vars

\* C3: when a single- or multi-block read or write succeeds, wrbusy is true
\* if and only if the transfer was a write, whatever the state on entry.
C3_BusyIffWrite ==
  [][\A t \in Threads :
       (/\ cur[t].pc = "body"
        /\ cur[t].op \in {"read", "write"}
        /\ cur'[t].sector > cur[t].sector)
         => (priv'.wrbusy <=> cur[t].op = "write")]_vars

\* A read that succeeded although wrbusy was set on entry and the partition
\* had to be switched in the same call.
C3_Witness ==
  /\ cur[1].op = "read"
  /\ cur[1].sector > cur[1].endsector - cur[1].nsectors
  /\ Len(sdio) > 0
  /\ sdio[1].wrbusy
  /\ \E i \in DOMAIN sdio : IsPartConf(sdio[i])
  /\ ~priv.wrbusy

\* C4: mmcsd_transferready succeeds only with a known card type, a card in
\* the slot and wrbusy false on return; when wrbusy was true on entry, the
\* success follows a CMD13 answered without error in state TRAN, and every
\* poll before it was answered without error.
C4_ReadyOnlyWhenIdle ==
  \A j \in DOMAIN sdio :
    IsReadyMark(sdio[j]) =>
      LET i == Last({m \in 1 .. (j - 1) : IsEntryMark(sdio[m])})
      IN  /\ sdio[j].type # MMCSD_CARDTYPE_UNKNOWN
          /\ card # "NONE"
          /\ ~sdio[j].wrbusy
          /\ sdio[i].wrbusy =>
               /\ j - 1 > i
               /\ sdio[j - 1].cmd = "CMD13"
               /\ sdio[j - 1].resp = "TRAN"
               /\ \A k \in (i + 1) .. (j - 2) :
                    /\ sdio[k].cmd = "CMD13"
                    /\ sdio[k].resp \in {"PRG", "RCV"}

\* mmcsd_transferready succeeded after one poll found the card busy and
\* the next found it in state TRAN.
C4_Witness ==
  \E j \in DOMAIN sdio :
    /\ j > 3
    /\ IsReadyMark(sdio[j])
    /\ sdio[j - 1].cmd = "CMD13"
    /\ sdio[j - 2].cmd = "CMD13"
    /\ sdio[j - 2].resp \in {"PRG", "RCV"}
    /\ IsEntryMark(sdio[j - 3])
    /\ sdio[j - 3].wrbusy


(***************************************************************************)
(* Properties of the slot's mutex.                                         *)
(***************************************************************************)
\* A caller that holds the mutex and is inside a handler.
InHandler(t) == cur[t].held /\ cur[t].pc \in {"body", "done"}

\* C5: callers in thread context exclude each other: at most one of them is
\* inside a handler with the mutex held, and while one is inside, every
\* step that talks to the host or changes the slot's state is its own, so
\* that no other operation, a media change included, runs between the
\* commands of a transfer in flight.
C5_MutualExclusion ==
  [][/\ \A t, u \in Threads : (InHandler(t)' /\ InHandler(u)') => t = u
     /\ \A t \in Threads :
          (InHandler(t) /\ (sdio' # <<>> \/ priv' # priv))
            => cur'[t] # cur[t]]_vars

\* A write of several chunks is between two chunks while a media change
\* waits for the mutex.
C5_Witness ==
  /\ cur[1].pc = "body"
  /\ cur[1].op = "write"
  /\ cur[1].sector > StartBlock
  /\ lock = 1
  /\ cur[2].pc = "lock"
  /\ cur[2].op = "mediachange"

(***************************************************************************)
(* Properties of block transfers.                                          *)
(***************************************************************************)
\* The start block of the transfers a step of caller t makes.
StartOf(t) ==
  IF cur[t].op \in {"read", "write"} THEN cur[t].sector ELSE StartBlock

\* C6: the argument of every CMD17, CMD18, CMD24 and CMD25 is the start
\* block shifted left by blockshift on a byte-addressed card, and the start
\* block itself on a block-addressed card.
C6_AddressArgument ==
  [][\A t \in Threads :
       (cur[t].pc = "body" /\ cur'[t] # cur[t]) =>
         \A i \in DOMAIN sdio' :
           IsDataCmd(sdio'[i]) =>
             sdio'[i].arg =
               Arg(IF IS_BLOCK(sdio'[i].type)
                   THEN StartOf(t)
                   ELSE StartOf(t) * Pow2(priv.blockshift))]_vars

\* A data command went to a byte-addressed card with a shifted address.
C6_Witness ==
  \E i \in DOMAIN sdio :
    /\ IsDataCmd(sdio[i])
    /\ ~IS_BLOCK(sdio[i].type)
    /\ priv.blockshift > 0
    /\ sdio[i].arg.low >= StartBlock * Pow2(priv.blockshift)

\* A pass of the loop of mmcsd_read or mmcsd_write made by caller t.
Transfers(t) ==
  /\ cur[t].pc = "body"
  /\ cur[t].op \in {"read", "write"}
  /\ cur'[t] # cur[t]

\* The partition switches of a step are for the target, come before the
\* data commands, and partnum moves exactly when one of them succeeded.
SwitchIsSound(t) ==
  LET sw == Where(sdio', IsPartConf)
  IN  /\ \A i \in sw :
           /\ Cmd6Value(sdio'[i].arg.low) = cur[t].part
           /\ \A d \in Where(sdio', IsDataCmd) : i < d
      /\ priv'.partnum # priv.partnum =>
           /\ priv'.partnum = cur[t].part
           /\ \E i \in sw : sdio'[i].resp = "OK"
      /\ (\E i \in sw : sdio'[i].resp = "OK") => priv'.partnum = cur[t].part

\* C7, as the code has it: a CMD6 write of PART_CONF is sent only if the
\* target partition differs from partnum, and it is sent whenever they
\* differ, the call is not refused and the mmcsd_transferready of the
\* switch succeeds; it carries the target, precedes the data command, and
\* partnum becomes the target only when the switch returns success.
C7_SwitchOnlyIfDifferent ==
  [][\A t \in Threads :
       Transfers(t) =>
         /\ Where(sdio', IsPartConf) # {} => priv.partnum # cur[t].part
         /\ (priv.partnum # cur[t].part /\ Where(sdio', IsReadyMark) # {})
              => Where(sdio', IsPartConf) # {}
         /\ SwitchIsSound(t)]_vars

\* C7, as stated: the CMD6 write of PART_CONF is sent if and only if the
\* target partition differs from partnum.
C7_SwitchIffDifferent ==
  [][\A t \in Threads :
       Transfers(t) =>
         /\ Where(sdio', IsPartConf) # {} <=> priv.partnum # cur[t].part
         /\ SwitchIsSound(t)]_vars

\* A transfer switched to the RPMB partition and then sent its data
\* command.
C7_Witness ==
  /\ cur[1].op \in {"read", "write"}
  /\ priv.partnum = MMCSD_PART_RPMB
  /\ \E i, d \in DOMAIN sdio :
       /\ IsPartConf(sdio[i])
       /\ sdio[i].resp = "OK"
       /\ IsDataCmd(sdio[d])
       /\ i < d

(***************************************************************************)
(* Properties of the cached card settings.                                 *)
(***************************************************************************)
\* C8: partnum is the partition selected by the last CMD6 write of
\* PART_CONF sent to the card, whoever sent it and whatever its R1 was.
C8_PartnumIsLastPartConf ==
  hist.partconf # -1 => priv.partnum = hist.partconf

\* C9, as the code has it: a nonzero selblocklen is the argument of the
\* last CMD16 the card accepted.
C9_BlockLenIsLastAccepted ==
  priv.selblocklen # 0 => priv.selblocklen = hist.cmd16ok

\* C9, as stated: a nonzero selblocklen is the argument of the last CMD16
\* sent, accepted or not.
C9_BlockLenIsLastSent ==
  priv.selblocklen # 0 => priv.selblocklen = hist.cmd16

\* The last CMD16 was answered with an error and selblocklen kept the
\* length set before it.
C9_Witness ==
  /\ priv.selblocklen # 0
  /\ hist.cmd16 # hist.cmd16ok
  /\ priv.selblocklen = hist.cmd16ok

\* The host's write protect switch was read in this step and was on.
HostProtected(log) ==
  \E i \in DOMAIN log :
    log[i].cmd = "SDIO_WRPROTECTED" /\ log[i].resp = "TRUE"

\* C10: a read of a locked card, and a write to a card that is locked,
\* write protected by its CSD or behind a host write protect switch that
\* is on, returns -EPERM, sends no command and leaves the slot's state
\* (partnum, wrbusy and selblocklen among it) as it was.
C10_RefusedWithoutSideEffect ==
  [][\A t \in Threads :
       (/\ Transfers(t)
        /\ \/ priv.locked
           \/ /\ cur[t].op = "write"
              /\ priv.wrprotect \/ HostProtected(sdio'))
         => /\ cur'[t].pc = "done"
            /\ cur'[t].ret = -EPERM
            /\ Where(sdio', IsCmd) = {}
            /\ priv' = priv]_vars

\* The second chunk of a write was refused because the host's write
\* protect switch was on, and wrbusy stayed as the first chunk left it.
C10_Witness ==
  /\ cur[1].op = "write"
  /\ cur[1].pc = "done"
  /\ cur[1].ret = -EPERM
  /\ cur[1].sector > StartBlock
  /\ HostProtected(sdio)
  /\ priv.wrbusy


(***************************************************************************)
(* Properties of failed transfers.                                         *)
(***************************************************************************)
\* The commands of a block transfer that are answered with R1.
TransferCmds ==
  {"CMD16", "CMD23", "CMD55", "ACMD23", "CMD12"} \cup DataCmds

\* An R1 with an error bit set.
IsR1Error(e) == e.resp \in {"IOERR", "LOCKED"}

\* The wait for the end of the data phase ended with a failure event.
IsEventFailure(e) ==
  e.cmd = "SDIO_EVENTWAIT" /\ e.resp \in {"TIMEOUT", "ERROR"}

\* The error mmcsd_eventwait returns for a failure event.
EventError(e) == IF e.resp = "TIMEOUT" THEN -ETIMEDOUT ELSE -EIO

\* SDIO_CANCEL was called after entry i of the trace.
CancelledAfter(log, i) ==
  \E j \in DOMAIN log : j > i /\ log[j].cmd = "SDIO_CANCEL"

\* C11: in a block transfer, a CMD16, CMD23, CMD55, ACMD23, data command
\* or CMD12 answered by an R1 with an error bit makes the operation return
\* -EIO, with SDIO_CANCEL called before it returns.
C11_ResponseErrorCancels ==
  [][\A t \in Threads :
       Transfers(t) =>
         \A i \in DOMAIN sdio' :
           (sdio'[i].cmd \in TransferCmds /\ IsR1Error(sdio'[i])) =>
             /\ cur'[t].pc = "done"
             /\ cur'[t].ret = -EIO
             /\ CancelledAfter(sdio', i)]_vars

\* C12: when the event wait of mmcsd_writemultiple fails, a card that
\* needs STOP_TRANSMISSION still gets CMD12, a card that does not gets
\* none, and the operation returns the error of the event wait whatever
\* CMD12 was answered.
C12_WriteStopKeepsEventError ==
  [][\A t \in Threads :
       (cur[t].pc = "body" /\ cur'[t] # cur[t]) =>
         \A i \in DOMAIN sdio' :
           (/\ IsEventFailure(sdio'[i])
            /\ \E d \in 1 .. (i - 1) : sdio'[d].cmd = "CMD25") =>
             /\ cur'[t].pc = "done"
             /\ cur'[t].ret = EventError(sdio'[i])
             /\ IF NeedsStop(priv)
                THEN \E j \in DOMAIN sdio' : j > i /\ sdio'[j].cmd = "CMD12"
                ELSE \A j \in DOMAIN sdio' : sdio'[j].cmd # "CMD12"]_vars

\* A multi-block write timed out in its data phase, CMD12 was sent and
\* answered with an error, and the write returned the timeout.
C12_Witness ==
  /\ cur[1].pc = "done"
  /\ cur[1].ret = -ETIMEDOUT
  /\ \E d, i, j \in DOMAIN sdio :
       /\ d < i
       /\ i < j
       /\ sdio[d].cmd = "CMD25"
       /\ IsEventFailure(sdio[i])
       /\ sdio[j].cmd = "CMD12"
       /\ IsR1Error(sdio[j])

\* C13: when the event wait of a block transfer ends with a timeout or an
\* error event, SDIO_CANCEL is called and the operation returns -ETIMEDOUT
\* for a timeout and -EIO for an error.
C13_EventFailureCancels ==
  [][\A t \in Threads :
       Transfers(t) =>
         \A i \in DOMAIN sdio' :
           IsEventFailure(sdio'[i]) =>
             /\ cur'[t].pc = "done"
             /\ cur'[t].ret = EventError(sdio'[i])
             /\ CancelledAfter(sdio', i)]_vars


(***************************************************************************)
(* Properties of removal and probing.                                      *)
(***************************************************************************)
IsUnregister(e) == e.cmd = "unregister_blockdriver"

IsClock(e) ==
  e.cmd \in {"SDIO_CLOCK_DISABLED", "SDIO_CLOCK_IDMODE", "SDIO_CLOCK_MMC",
             "SDIO_CLOCK_SD_1BIT", "SDIO_CLOCK_SD_4BIT"}

\* The step ran mmcsd_removed and nothing after it that touches the card:
\* BIOC_EJECT, a media change without a card, a probe of an empty slot.
RemovedRan(log) ==
  Where(log, IsUnregister) # {} /\ Where(log, IsIdentify) = {}

\* C14: after mmcsd_removed, from any state, none of the names of the slot
\* is registered, the card type is unknown and the host's clock is
\* disabled.
C14_RemovedUnregistersAll ==
  [][RemovedRan(sdio') =>
       /\ registered' = {}
       /\ priv'.type = MMCSD_CARDTYPE_UNKNOWN
       /\ sdio'[Last(Where(sdio', IsClock))].cmd = "SDIO_CLOCK_DISABLED"]_vars

\* mmcsd_removed ran on a slot that held an initialized eMMC whose RPMB
\* partition had been registered.
C14_Witness ==
  /\ RemovedRan(sdio)
  /\ IS_MMC(sdio[1].type)
  /\ MMCSD_PART_RPMB \in inodes
  /\ registered = {}

\* C15: after mmcsd_removed the size of every partition and the block size
\* are 0, rca and selblocklen are 0, wrbusy is false, and the bus is 1 bit
\* wide, the host having been told so.
C15_RemovedZeroesGeometry ==
  [][RemovedRan(sdio') =>
       /\ \A i \in Parts : priv'.part[i] = 0
       /\ priv'.blocksize = 0
       /\ priv'.rca = 0
       /\ priv'.selblocklen = 0
       /\ ~priv'.wrbusy
       /\ priv'.buswidth = MMCSD_SCR_BUSWIDTH_1BIT
       /\ ~priv'.widebus
       /\ \E i \in DOMAIN sdio' : sdio'[i].cmd = "SDIO_WIDEBUS_OFF"]_vars

\* Whether the card has a partition i of non-zero size: the user data area
\* always; on an eMMC whose EXT_CSD enables partitioning, the boot
\* partitions and the RPMB partition with a non-zero size multiplier.
CardHasPart(cd, i) ==
  \/ i = MMCSD_PART_UDATA
  \/ /\ CardInfo[cd].mmc
     /\ CardInfo[cd].hcs
     /\ CardInfo[cd].parten
     /\ \/ i \in {MMCSD_PART_BOOT0, MMCSD_PART_BOOT1} /\ CardInfo[cd].bootmult > 0
        \/ i = MMCSD_PART_RPMB /\ CardInfo[cd].rpmbmult > 0

\* The step probed the card in the slot and initialized it.
ProbeSucceeded ==
  /\ Where(sdio', IsIdentify) # {}
  /\ priv'.probed
  /\ priv'.mediachanged

\* C16: after a probe that found and initialized a card, the name of
\* partition i is registered if and only if the card in the slot has a
\* partition i of non-zero size.
C16_RegisteredIffCardHasPart ==
  [][ProbeSucceeded =>
       \A i \in Parts : i \in registered' <=> CardHasPart(card, i)]_vars

\* C17: with the same card answering the same way, a probe that follows an
\* earlier probe and mmcsd_removed leaves the partition sizes, the block
\* size, the card type and the registered names as the earlier probe left
\* them.
C17_ProbeIdempotent ==
  [][(hist.geom.card # "NONE" /\ hist'.geom.card = hist.geom.card)
       => hist'.geom = hist.geom]_vars

\* A slot that held an initialized eMMC was probed again: mmcsd_removed
\* ran first, the card was identified and initialized anew, and its
\* geometry was recorded.
C17_Witness ==
  /\ Where(sdio, IsIdentify) # {}
  /\ IsUnregister(sdio[1])
  /\ IS_MMC(sdio[1].type)
  /\ priv.mediachanged
  /\ hist.geom.card = card
  /\ hist.geom.part = priv.part
  /\ MMCSD_PART_RPMB \in hist.geom.reg

(***************************************************************************)
(* Properties of the loops of mmcsd_read and mmcsd_write.                  *)
(***************************************************************************)
\* ceil(n / MMCSD_MULTIBLOCK_LIMIT)
ChunksOf(n) == (n + MMCSD_MULTIBLOCK_LIMIT - 1) \div MMCSD_MULTIBLOCK_LIMIT

IsBlockSetup(e) == e.cmd = "SDIO_BLOCKSETUP"

\* The pass caller t makes covers n blocks from its current sector with
\* one data command: CMD17 / CMD24 for one block, CMD18 / CMD25 for more.
CoversChunk(t, n) ==
  LET d == Where(sdio', IsDataCmd)
      b == Where(sdio', IsBlockSetup)
  IN  /\ Cardinality(d) = 1
      /\ \A i \in d :
           /\ sdio'[i].cmd \in (IF n = 1 THEN {"CMD17", "CMD24"}
                                ELSE {"CMD18", "CMD25"})
           /\ sdio'[i].arg = Offset(priv, cur[t].sector)
      /\ Cardinality(b) = 1
      /\ \A i \in b : sdio'[i].arg = Arg(n)
      /\ cur'[t].sector = cur[t].sector + n
      /\ cur'[t].cmds = cur[t].cmds + 1

\* C18: a read or write of n blocks without errors sends
\* ceil(n / MMCSD_MULTIBLOCK_LIMIT) data commands; each pass covers
\* min(remaining, MMCSD_MULTIBLOCK_LIMIT) blocks and starts where the pass
\* before it ended, the first at the start block, the last ending at
\* start + n.
C18_ChunksCoverRange ==
  [][\A t \in Threads :
       (Transfers(t) /\ cur'[t].ret >= 0) =>
         /\ cur[t].sector = cur[t].endsector - cur[t].nsectors
              + cur[t].cmds * MMCSD_MULTIBLOCK_LIMIT
         /\ cur[t].sector < cur[t].endsector
         /\ CoversChunk(t, Min(cur[t].endsector - cur[t].sector,
                               MMCSD_MULTIBLOCK_LIMIT))
         /\ cur'[t].pc = "done" <=> cur'[t].sector = cur[t].endsector
         /\ cur'[t].pc = "done" => cur'[t].cmds = ChunksOf(cur[t].nsectors)]_vars

\* A transfer of more blocks than MMCSD_MULTIBLOCK_LIMIT has completed with
\* two data commands.
C18_Witness ==
  \E t \in Threads :
    /\ cur[t].pc = "done"
    /\ cur[t].op \in {"read", "write"}
    /\ cur[t].nsectors > MMCSD_MULTIBLOCK_LIMIT
    /\ cur[t].ret = cur[t].nsectors
    /\ cur[t].cmds = 2
    /\ \E i \in DOMAIN sdio : sdio[i].cmd \in {"CMD17", "CMD24"}

\* The pass caller t makes ends the call: with the whole count when the
\* last block has been transferred, and otherwise with a negative error
\* and the loop variable where the failed pass started.
EndsCall(t) ==
  \/ /\ cur'[t].ret = cur[t].nsectors
     /\ cur'[t].sector = cur[t].endsector
  \/ /\ cur'[t].ret < 0
     /\ cur'[t].sector = cur[t].sector
     /\ cur'[t].sector < cur[t].endsector

\* The step of caller t after the loop: mmcsd_unlock, and nothing is sent.
LeavesCall(t) ==
  /\ cur'[t] = Idle
  /\ sdio' = <<>>
  /\ IF cur[t].held THEN lock = t /\ lock' = 0 ELSE lock' = lock

\* C19: mmcsd_read and mmcsd_write return the number of blocks asked for
\* when every pass succeeded; a failed pass ends the call with a negative
\* error, never a partial count, after it no command is sent and the mutex
\* is released; a call for no block returns 0 without taking the mutex and
\* without a command.
C19_CountOrError ==
  [][\A t \in Threads :
       /\ Transfers(t) =>
            /\ cur'[t].held = cur[t].held
            /\ cur[t].held => lock' = t
            /\ IF cur'[t].pc = "done"
               THEN EndsCall(t)
               ELSE /\ cur'[t].pc = "body"
                    /\ cur'[t].ret = 0
                    /\ cur'[t].sector > cur[t].sector
                    /\ cur'[t].sector < cur[t].endsector
       /\ (cur[t].pc = "done" /\ cur[t].op \in {"read", "write"}
             /\ cur'[t] # cur[t]) => LeavesCall(t)
       /\ (cur[t].pc = "idle" /\ cur'[t].op \in {"read", "write"}
             /\ cur'[t].nsectors = 0) =>
            /\ cur'[t].pc = "done"
            /\ cur'[t].ret = 0
            /\ ~cur'[t].held
            /\ lock' = lock
            /\ sdio' = <<>>]_vars

\* The second pass of a transfer failed after the first had succeeded: the
\* call has ended with the error and still holds the mutex.
C19_Witness ==
  \E t \in Threads :
    /\ cur[t].pc = "done"
    /\ cur[t].op \in {"read", "write"}
    /\ cur[t].ret < 0
    /\ cur[t].sector = StartBlock + MMCSD_MULTIBLOCK_LIMIT
    /\ cur[t].sector < cur[t].endsector
    /\ cur[t].held
    /\ lock = t
    /\ sdio # <<>>

(***************************************************************************)
(* Properties of mmcsd_geometry.                                           *)
(***************************************************************************)
\* Caller t runs the body of mmcsd_geometry.
Reports(t) ==
  /\ cur[t].pc = "body"
  /\ cur[t].op = "geometry"
  /\ cur'[t] # cur[t]

\* C20: mmcsd_geometry fails with -ENODEV and leaves mediachanged alone
\* when the card type is unknown; otherwise it reports the partition's
\* nblocks, the block size, write-enabled as the negation of (locked or
\* write protected), and the mediachanged flag, which it clears.  The flag
\* is raised by a probe only and is never up on an empty slot, so of two
\* calls with no probe between them the second reports no media change.
C20_GeometryReport ==
  [][/\ \A t \in Threads :
          Reports(t) =>
            IF priv.type = MMCSD_CARDTYPE_UNKNOWN
            THEN /\ cur'[t].ret = -ENODEV
                 /\ cur'[t].geo = NoGeometry
                 /\ priv'.mediachanged = priv.mediachanged
                 /\ ~priv.mediachanged
            ELSE /\ cur'[t].ret = OK
                 /\ cur'[t].geo.available
                 /\ cur'[t].geo.nsectors = priv.part[cur[t].part]
                 /\ cur'[t].geo.sectorsize = priv.blocksize
                 /\ cur'[t].geo.writeenabled =
                      ~(priv.locked \/ priv.wrprotect \/ HostProtected(sdio'))
                 /\ cur'[t].geo.mediachanged = priv.mediachanged
                 /\ ~priv'.mediachanged
     /\ (~priv.mediachanged /\ priv'.mediachanged) =>
          Where(sdio', IsIdentify) # {}]_vars

\* The geometry of a freshly probed card has been reported with the media
\* change, and the flag is down.
C20_Witness ==
  \E t \in Threads :
    /\ cur[t].pc = "done"
    /\ cur[t].op = "geometry"
    /\ cur[t].ret = OK
    /\ cur[t].geo.available
    /\ cur[t].geo.mediachanged
    /\ cur[t].geo.writeenabled
    /\ cur[t].geo.nsectors > 0
    /\ cur[t].geo.sectorsize = 512
    /\ ~priv.mediachanged

(***************************************************************************)
(* Properties of the identification of the card.                           *)
(***************************************************************************)
IsIdentified(e) == e.cmd = "cardidentify"

CardTypes ==
  {{"SDV1"}, {"SDV2"}, {"SDV2", "BLOCK"}, {"MMC"}, {"MMC", "BLOCK"}}

C22_BlockSizeNormalized ==
  priv.type # MMCSD_CARDTYPE_UNKNOWN =>
    priv.blocksize = 512 /\ priv.blockshift = 9

(***************************************************************************)
(* Properties of the reference count.                                      *)
(***************************************************************************)
\* C23: mmcsd_open is refused when crefs has reached MAX_CREFS: it fails
\* and leaves crefs as it was; below MAX_CREFS it adds one reference.
C23_OpenRefusedAtMax ==
  [][\A t \in Threads :
       (cur[t].pc = "body" /\ cur[t].op = "open" /\ cur'[t] # cur[t]) =>
         IF priv.crefs >= MAX_CREFS
         THEN cur'[t].ret < 0 /\ priv'.crefs = priv.crefs
         ELSE cur'[t].ret = OK /\ priv'.crefs = priv.crefs + 1]_vars

(***************************************************************************)
(* Properties of the locked flag.                                          *)
(***************************************************************************)
\* The commands whose response the driver reads as R1 (CMD3 and CMD8 on
\* MMC cards only).
R1Cmds ==
  Commands \ {"CMD0", "CMD1", "CMD2", "CMD3", "CMD8", "CMD9", "ACMD41"}

\* An R1 response the driver received.
IsR1(e) ==
  /\ e.cmd \in R1Cmds \/ (e.cmd \in {"CMD3", "CMD8"} /\ IS_MMC(e.type))
  /\ e.resp \notin {"-", "HOSTERR"}

\* C24: priv->locked says whether the R1 received last showed
\* CARD_IS_LOCKED: after a step that received an R1 the flag is that of
\* the last one, also after a probe that follows mmcsd_removed.
C24_LockedIsLastR1 ==
  [][LET r == Where(sdio', IsR1)
     IN  IF r # {}
         THEN priv'.locked = (sdio'[Last(r)].resp = "LOCKED")
         ELSE priv'.locked = priv.locked]_vars

(***************************************************************************)
(* Properties of MMC_IOC_MULTI_CMD.                                        *)
(***************************************************************************)
IsReturned(e) == e.cmd = "iocmd"

\* C25: mmcsd_multi_iocmd with more than MMC_IOC_MAX_CMDS commands returns
\* -EINVAL and executes none; otherwise it executes the commands one after
\* the other, and the first that returns an error ends the call with that
\* error, the commands after it left unexecuted.
C25_BatchStopsAtFirstError ==
  [][\A t \in Threads :
       /\ (cur[t].pc = "body" /\ cur[t].op = "ioctl"
             /\ cur'[t].op = "multi_iocmd") =>
            /\ sdio' = <<>>
            /\ IF cur'[t].left > MMC_IOC_MAX_CMDS
               THEN cur'[t].pc = "done" /\ cur'[t].ret = -EINVAL
               ELSE IF cur'[t].left = 0
               THEN cur'[t].pc = "done" /\ cur'[t].ret = OK
               ELSE cur'[t].pc = "body" /\ cur'[t].ret = OK
       /\ (cur[t].pc = "body" /\ cur[t].op = "multi_iocmd"
             /\ cur'[t] # cur[t]) =>
            /\ cur[t].left \in 1 .. MMC_IOC_MAX_CMDS
            /\ Cardinality(Where(sdio', IsReturned)) = 1
            /\ IsReturned(sdio'[Len(sdio')])
            /\ IF sdio'[Len(sdio')].arg.low # 0
               THEN /\ cur'[t].pc = "done"
                    /\ cur'[t].ret = -sdio'[Len(sdio')].arg.low
                    /\ cur'[t].left = cur[t].left
               ELSE IF cur[t].left > 1
               THEN /\ cur'[t].pc = "body"
                    /\ cur'[t].ret = OK
                    /\ cur'[t].left = cur[t].left - 1
               ELSE /\ cur'[t].pc = "done"
                    /\ cur'[t].ret = OK
       /\ (cur[t].pc = "done" /\ cur[t].op = "multi_iocmd"
             /\ cur'[t] # cur[t]) =>
            cur'[t] = Idle /\ sdio' = <<>>]_vars

\* The second command of a batch has failed after the first succeeded, and
\* the call has ended with the error.
C25_Witness ==
  \E t \in Threads :
    /\ cur[t].pc = "done"
    /\ cur[t].op = "multi_iocmd"
    /\ cur[t].left = MaxBatch - 1
    /\ cur[t].ret < 0
    /\ \E i \in DOMAIN sdio : IsCmd(sdio[i]) /\ sdio[i].resp # "OK"

IsReadExit(e) == e.cmd = "general_cmd_read:exit"

\* C26: the CMD56 read through MMC_IOC_CMD returns the result of the
\* transfer: when mmcsd_transferready, CMD16, the DMA setup, the R1 of
\* CMD56 or the event wait failed, the ioctl returns that error.
C26_Cmd56ReadReturnsResult ==
  [][\A t \in Threads :
       (cur[t].pc = "body" /\ cur[t].op = "ioctl" /\ cur'[t] # cur[t]) =>
         \A i \in Where(sdio', IsReadExit) :
           cur'[t].ret = -sdio'[i].arg.low]_vars

(***************************************************************************)
(* Properties of media changes.                                            *)
(***************************************************************************)
\* The step ran mmcsd_probe past its early return: mmcsd_removed first,
\* then mmcsd_cardidentify, and (with card detection) the ejection
\* callback enabled at the end.
ProbeRan ==
  /\ sdio' # <<>>
  /\ IsUnregister(sdio'[1])
  /\ Where(sdio', IsIdentified) # {}
  /\ config.HAVE_CARDDETECT =>
       sdio'[Len(sdio')].cmd = "SDIO_CALLBACKENABLE_EJECTED"

\* The step ran mmcsd_removed and then enabled the insertion callback.
RemovedAndRearmed ==
  /\ RemovedRan(sdio')
  /\ sdio'[Len(sdio')].cmd = "SDIO_CALLBACKENABLE_INSERTED"
  /\ Cardinality(Where(sdio', IsUnregister)) = MMCSD_PART_COUNT
  /\ \A i \in Where(sdio', IsUnregister) : i < Len(sdio')
  /\ priv'.type = MMCSD_CARDTYPE_UNKNOWN
  /\ ~priv'.probed
  /\ registered' = {}

\* C27: mmcsd_mediachange, with the mutex held, runs mmcsd_probe when the
\* host reports a card and otherwise mmcsd_removed followed by
\* SDIO_CALLBACKENABLE(SDIOMEDIA_INSERTED); BIOC_EJECT too runs
\* mmcsd_removed followed by SDIO_CALLBACKENABLE(SDIOMEDIA_INSERTED).
C27_MediaChangeProbesOrRemoves ==
  [][\A t \in Threads :
       (cur[t].pc = "body" /\ cur'[t] # cur[t]) =>
         /\ cur[t].op = "mediachange" =>
              /\ cur[t].held /\ lock = t /\ lock' = t
              /\ IF card = "NONE" THEN RemovedAndRearmed
                 ELSE IF ProbeSkipped THEN sdio' = <<>> /\ priv' = priv
                 ELSE ProbeRan
         /\ cur'[t].op = "BIOC_EJECT" =>
              /\ cur[t].op = "ioctl"
              /\ cur[t].held => lock = t /\ lock' = t
              /\ cur'[t].ret = OK
              /\ RemovedAndRearmed]_vars

\* The card was pulled and the media change has been processed: the names
\* the card had are unregistered and the insertion callback is enabled.
C27_Witness ==
  \E t \in Threads :
    /\ cur[t].pc = "done"
    /\ cur[t].op = "mediachange"
    /\ cur[t].held
    /\ lock = t
    /\ card = "NONE"
    /\ inodes # {}
    /\ registered = {}
    /\ sdio # <<>>
    /\ sdio[Len(sdio)].cmd = "SDIO_CALLBACKENABLE_INSERTED"

(***************************************************************************)
(* Properties of mmcsd_transferready.                                      *)
(***************************************************************************)
\* C28: mmcsd_transferready returns -ENODEV without a command when the
\* type is unknown or the host reports no card, whatever wrbusy is; returns
\* OK without a command when wrbusy is false; otherwise sends CMD13 at
\* least once: TRAN gives OK and clears wrbusy, PRG and RCV lead to another
\* poll, any other state gives -EINVAL at once, and -ETIMEDOUT is returned
\* once TICK_PER_SEC ticks have elapsed after a poll that did not find
\* TRAN; while the tick advances the call returns.
C28_ReadyOutcome ==
  /\ [][\A t \in {1} :
         /\ cur[t].pc = "entry" =>
              /\ sdio' = <<>>
              /\ priv' = priv
              /\ IF priv.type = MMCSD_CARDTYPE_UNKNOWN \/ card = "NONE"
                 THEN cur'[t].pc = "ret" /\ cur'[t].ret = -ENODEV
                 ELSE IF ~priv.wrbusy
                 THEN cur'[t].pc = "ret" /\ cur'[t].ret = OK
                 ELSE cur'[t].pc = "poll"
         /\ (cur[t].pc = "poll" /\ cur'[t].pc # "poll") =>
              /\ Len(sdio') = 1
              /\ sdio'[1].cmd = "CMD13"
              /\ CASE sdio'[1].resp = "TRAN" ->
                        /\ cur'[t].pc = "ret" /\ cur'[t].ret = OK
                        /\ ~priv'.wrbusy
                   [] sdio'[1].resp \in {"PRG", "RCV"} ->
                        /\ cur'[t].pc = "sleep"
                        /\ priv'.wrbusy
                   [] sdio'[1].resp \in R1States \ {"TRAN", "PRG", "RCV"} ->
                        /\ cur'[t].pc = "ret" /\ cur'[t].ret = -EINVAL
                        /\ priv'.wrbusy
                   [] OTHER ->
                        /\ cur'[t].pc = "ret"
                        /\ cur'[t].ret \in {-EIO, -ETIMEDOUT}
                        /\ priv'.wrbusy
         /\ (cur[t].pc = "sleep" /\ cur'[t].pc # "sleep") =>
              /\ sdio' = <<>>
              /\ priv' = priv
              /\ IF cur[t].ticks - cur[t].starttime >= TICK_PER_SEC
                 THEN cur'[t].pc = "ret" /\ cur'[t].ret = -ETIMEDOUT
                 ELSE cur'[t].pc = "poll"
         /\ cur[t].pc = "ret" => cur'[t] = cur[t]]_vars
  /\ <>(cur[1].pc = "ret")

\* The card stayed in PRG or RCV for a second: the call has polled and
\* has returned -ETIMEDOUT with wrbusy still set.
C28_Witness ==
  /\ cur[1].pc = "ret"
  /\ cur[1].op = "transferready"
  /\ cur[1].ret = -ETIMEDOUT
  /\ cur[1].elapsed >= TICK_PER_SEC
  /\ priv.wrbusy

(***************************************************************************)
(* Properties of the partition switch.                                     *)
(***************************************************************************)
IsCmd13(e) == e.cmd = "CMD13"

IsTran(e) == e.cmd = "CMD13" /\ e.resp = "TRAN"

\* C29: the CMD6 that writes PARTITION_CONFIG sets wrbusy: from that CMD6
\* on wrbusy stays true until a CMD13 is answered with TRAN, the command
\* sent next is CMD13, and before a data command of the same transfer the
\* polls answered PRG or RCV are followed by one answered TRAN.
C29_SwitchThenPoll ==
  \A i \in Where(sdio, IsPartConf) :
    LET tran == {j \in Where(sdio, IsTran) : j > i}
        later == {k \in Where(sdio, IsCmd) : k > i}
    IN  /\ \A k \in (i + 1) .. Len(sdio) :
             (\A j \in tran : k <= j) => sdio[k].wrbusy
        /\ tran = {} => priv.wrbusy
        /\ later # {} => IsCmd13(sdio[First(later)])
        /\ \A d \in Where(sdio, IsDataCmd) :
             d > i =>
               /\ tran # {}
               /\ First(tran) < d
               /\ \A m \in later :
                    m < First(tran) =>
                      IsCmd13(sdio[m]) /\ sdio[m].resp \in {"PRG", "RCV"}

\* A read of a partition that was not the current one: CMD6, a poll that
\* found the card busy, a poll that found TRAN, then the read command.
C29_Witness ==
  \E t \in Threads :
    /\ cur[t].op = "read"
    /\ cur[t].part # MMCSD_PART_UDATA
    /\ \E i \in Where(sdio, IsPartConf) :
         /\ sdio[i].resp = "OK"
         /\ ~sdio[i].wrbusy
         /\ \E j, k, d \in DOMAIN sdio :
              /\ i < j /\ j < k /\ k < d
              /\ IsCmd13(sdio[j]) /\ sdio[j].resp \in {"PRG", "RCV"}
              /\ IsTran(sdio[k])
              /\ sdio[d].cmd \in {"CMD17", "CMD18"}

(***************************************************************************)
(* Properties of the choice between the single and the multiple block      *)
(* methods.                                                                *)
(***************************************************************************)
\* C30: a pass of the loop of mmcsd_read or mmcsd_write that has exactly
\* one block to transfer, the only block of the call or the remainder
\* after passes of MMCSD_MULTIBLOCK_LIMIT blocks, sends CMD17 for a read
\* and CMD24 for a write, and never CMD18, CMD25, CMD23 or CMD12, whether
\* the pass succeeds or fails.
C30_OneBlockIsSingle ==
  [][\A t \in Threads :
       (/\ Transfers(t)
        /\ Min(cur[t].endsector - cur[t].sector, MMCSD_MULTIBLOCK_LIMIT) = 1)
       =>
         /\ \A i \in DOMAIN sdio' :
              /\ sdio'[i].cmd \notin {"CMD18", "CMD25", "CMD23", "CMD12"}
              /\ IsDataCmd(sdio'[i]) =>
                   sdio'[i].cmd = (IF cur[t].op = "read" THEN "CMD17"
                                                        ELSE "CMD24")
              /\ IsBlockSetup(sdio'[i]) => sdio'[i].arg = Arg(1)
         /\ cur'[t].ret >= 0 =>
              /\ Cardinality(Where(sdio', IsDataCmd)) = 1
              /\ cur'[t].sector = cur[t].sector + 1
              /\ cur'[t].pc = "done"]_vars

\* A write of MMCSD_MULTIBLOCK_LIMIT + 1 blocks has completed: its last
\* pass had one block left and sent CMD24.
C30_Witness ==
  \E t \in Threads :
    /\ cur[t].pc = "done"
    /\ cur[t].op = "write"
    /\ cur[t].nsectors = MMCSD_MULTIBLOCK_LIMIT + 1
    /\ cur[t].ret = cur[t].nsectors
    /\ cur[t].sector = cur[t].endsector
    /\ \E i \in DOMAIN sdio : sdio[i].cmd = "CMD24"
    /\ \A i \in DOMAIN sdio : sdio[i].cmd # "CMD25"

(***************************************************************************)
(* Properties of the framing of multiple block transfers.                  *)
(***************************************************************************)
IsCmd18(e) == e.cmd = "CMD18"

IsCmd23(e) == e.cmd = "CMD23"

IsCmd12(e) == e.cmd = "CMD12"

IsEventOk(e) == e.cmd = "SDIO_EVENTWAIT" /\ e.resp = "OK"

\* C31: in mmcsd_readmultiple of n blocks CMD23(n) precedes CMD18 exactly
\* when the card is an MMC card or an SD card with cmd23support, CMD12
\* follows the data phase exactly when the card is an SD card without
\* cmd23support, a read that succeeds has sent exactly one of CMD23 and
\* CMD12, and a CMD12 that fails makes the read fail.
C31_ReadMultipleFraming ==
  [][\A t \in Threads :
       (/\ Transfers(t)
        /\ cur[t].op = "read"
        /\ Min(cur[t].endsector - cur[t].sector, MMCSD_MULTIBLOCK_LIMIT) > 1)
       =>
         LET n == Min(cur[t].endsector - cur[t].sector,
                      MMCSD_MULTIBLOCK_LIMIT)
             s18 == Where(sdio', IsCmd18)
             s23 == Where(sdio', IsCmd23)
             s12 == Where(sdio', IsCmd12)
             sev == Where(sdio', IsEventOk)
         IN  /\ \A i \in s18 :
                  /\ UsesCmd23(priv) <=> \E j \in s23 : j < i
                  /\ \A j \in s23 : j < i /\ sdio'[j].arg = Arg(n)
             /\ \A i \in sev : NeedsStop(priv) <=> \E j \in s12 : j > i
             /\ \A j \in s12 : sev # {} /\ NeedsStop(priv)
             /\ cur'[t].ret >= 0 =>
                  Cardinality(s23) + Cardinality(s12) = 1
             /\ \A j \in s12 : sdio'[j].resp # "OK" => cur'[t].ret < 0]_vars

IsCmd25(e) == e.cmd = "CMD25"

IsCmd55(e) == e.cmd = "CMD55"

IsAcmd23(e) == e.cmd = "ACMD23"

\* C32: in mmcsd_writemultiple of n blocks an SD card gets CMD55 and
\* ACMD23(n) before CMD25, followed by CMD23(n) only with cmd23support; an
\* MMC card gets CMD23 with n in the low bits and bit 31 set exactly when
\* the partition written is the RPMB; when one of these commands is
\* answered by an R1 with an error, no CMD25 is sent and the write fails.
C32_WriteMultiplePrologue ==
  [][\A t \in Threads :
       (/\ Transfers(t)
        /\ cur[t].op = "write"
        /\ Min(cur[t].endsector - cur[t].sector, MMCSD_MULTIBLOCK_LIMIT) > 1)
       =>
         LET n == Min(cur[t].endsector - cur[t].sector,
                      MMCSD_MULTIBLOCK_LIMIT)
             s25 == Where(sdio', IsCmd25)
             s23 == Where(sdio', IsCmd23)
             s55 == Where(sdio', IsCmd55)
             sa23 == Where(sdio', IsAcmd23)
             pre == s23 \cup s55 \cup sa23
         IN  /\ \A i \in s25 :
                  /\ \A j \in pre : j < i /\ sdio'[j].resp = "OK"
                  /\ IF IS_SD(priv.type)
                     THEN /\ Cardinality(s55) = 1
                          /\ Cardinality(sa23) = 1
                          /\ \A a \in s55, b \in sa23 :
                               /\ a < b
                               /\ sdio'[b].arg = Arg(n)
                               /\ \A j \in s23 : b < j
                          /\ Cardinality(s23) =
                               (IF priv.cmd23support THEN 1 ELSE 0)
                          /\ \A j \in s23 : sdio'[j].arg = Arg(n)
                     ELSE /\ s55 = {} /\ sa23 = {}
                          /\ Cardinality(s23) = 1
                          /\ \A j \in s23 :
                               sdio'[j].arg =
                                 Arg32(cur[t].part = MMCSD_PART_RPMB, n)
             /\ \A j \in pre :
                  sdio'[j].resp # "OK" =>
                    /\ s25 = {}
                    /\ cur'[t].ret < 0
                    /\ \A k \in Where(sdio', IsCmd) : k <= j]_vars

\* Two blocks have been written to the RPMB partition of an eMMC: CMD23
\* with bit 31 set came before CMD25.
C32_Witness ==
  \E t \in Threads :
    /\ cur[t].op = "write"
    /\ cur[t].part = MMCSD_PART_RPMB
    /\ cur[t].ret >= 2
    /\ \E j, i \in DOMAIN sdio :
         /\ j < i
         /\ IsCmd23(sdio[j]) /\ sdio[j].arg.b31
         /\ IsCmd25(sdio[i]) /\ sdio[i].resp = "OK"

(***************************************************************************)
(* Properties of the initialization of an identified card.                 *)
(***************************************************************************)
IsInitialized(e) == e.cmd = "initialize"

\* The commands mmcsd_sdinitialize must see succeed, in the order it sends
\* them, and the answer each of them gives when it succeeds.
SdInitOrder == <<"CMD2", "CMD3", "CMD13", "CMD9", "CMD7", "CMD16", "ACMD51">>

SdInitGood(e) == e.resp = (IF e.cmd = "CMD13" THEN "STBY" ELSE "OK")

\* The error mmcsd_sdinitialize returns for the answer of entry e.
SdInitError(e) ==
  CASE e.resp \in {"IOERR", "LOCKED"} -> EIO
    [] e.resp \in {"HOSTERR", "TIMEOUT"} -> ETIMEDOUT
    [] e.resp = "ERROR" -> EIO
    [] OTHER -> EINVAL

RECURSIVE Picked(_, _, _)
\* The indices from i on of the entries of log whose command is in S, in
\* the order of the trace.
Picked(log, S, i) ==
  IF i > Len(log)
  THEN <<>>
  ELSE IF log[i].cmd \in S
  THEN <<i>> \o Picked(log, S, i + 1)
  ELSE Picked(log, S, i + 1)

\* C33: after an SD card was identified, mmcsd_sdinitialize sends CMD2,
\* CMD3, CMD13 (which must report STBY), CMD9, CMD7, then CMD16(8), CMD55
\* and ACMD51 and waits for the SCR; the first of them that fails ends the
\* initialization with its error and no later command is sent; a failure
\* in mmcsd_widebus does not change the result.  (No CMD4 is sent in the
\* configuration modelled.)
C33_SdInitOrder ==
  \A m \in Where(sdio, IsIdentified), r \in Where(sdio, IsInitialized) :
    (sdio[m].arg = Arg(OK) /\ IS_SD(sdio[m].type)) =>
      LET core == Picked(sdio, {SdInitOrder[k] : k \in DOMAIN SdInitOrder},
                         m)
          n == Len(core)
          ev == {i \in Where(sdio, IsCmd) : i > m}
          wait == {i \in m .. r : sdio[i].cmd = "SDIO_EVENTWAIT"}
      IN  /\ m < r
          /\ n >= 1 /\ n <= Len(SdInitOrder)
          /\ \A k \in 1 .. n :
               /\ sdio[core[k]].cmd = SdInitOrder[k]
               /\ core[k] < r
               /\ k < n => SdInitGood(sdio[core[k]])
          /\ sdio[core[n]].cmd = "CMD16" => sdio[core[n]].arg = Arg(8)
          /\ sdio[core[n]].cmd = "ACMD51" =>
               /\ sdio[core[n] - 1].cmd = "CMD55"
               /\ sdio[core[n] - 1].resp = "OK"
          /\ IF ~SdInitGood(sdio[core[n]])
             THEN /\ sdio[r].arg = Arg(SdInitError(sdio[core[n]]))
                  /\ \A i \in ev : i <= core[n]
             ELSE IF n < Len(SdInitOrder)
             THEN \* CMD55 of the SCR read failed after CMD16.
                  /\ sdio[core[n]].cmd = "CMD16"
                  /\ sdio[Last(ev)].cmd = "CMD55"
                  /\ sdio[Last(ev)].resp # "OK"
                  /\ sdio[r].arg = Arg(SdInitError(sdio[Last(ev)]))
             ELSE /\ Cardinality(wait) = 1
                  /\ \A i \in wait :
                       /\ i > core[n]
                       /\ IF sdio[i].resp = "OK"
                          THEN sdio[r].arg = Arg(OK)
                          ELSE /\ sdio[r].arg = Arg(SdInitError(sdio[i]))
                               /\ \A j \in ev : j < i

\* An SD card on a host that has only four data lines: ACMD6 of the
\* negotiation before the SCR read failed, and the initialization went on
\* and returned OK.
C33_Witness ==
  \E m \in Where(sdio, IsIdentified), r \in Where(sdio, IsInitialized) :
    /\ IS_SD(sdio[m].type)
    /\ sdio[r].arg = Arg(OK)
    /\ \E i, j \in m .. r :
         /\ i < j
         /\ sdio[i].cmd \in {"ACMD42", "ACMD6"} /\ sdio[i].resp # "OK"
         /\ sdio[j].cmd = "ACMD51" /\ sdio[j].resp = "OK"

\* The initialization of an MMC card that is in the slot has just returned
\* OK.
MmcInitDone ==
  /\ card # "NONE"
  /\ CardInfo[card].mmc
  /\ \E r \in Where(sdio, IsInitialized) :
       sdio[r].arg = Arg(OK) /\ IS_MMC(sdio[r].type)

\* SEND_EXT_CSD was sent after the card was identified.
ExtCsdRead ==
  \E m \in Where(sdio, IsIdentified), i \in DOMAIN sdio :
    m < i /\ sdio[i].cmd = "CMD8"

\* (C_SIZE + 1) * 2^(C_SIZE_MULT + 2) blocks of 2^READ_BL_LEN bytes.
CsdUnits(csd) == (csd.csize + 1) * Pow2(csd.csizemult + 2)

\* n blocks of 512 bytes hold what the CSD gives as capacity.
CsdCapacityIn512(csd, n) ==
  IF csd.readbllen >= 9
  THEN n = CsdUnits(csd) * Pow2(csd.readbllen - 9)
  ELSE n * Pow2(9 - csd.readbllen) = CsdUnits(csd)

C35_BlockOnlyOnSdv2 ==
  /\ (IS_SD(priv.type) /\ IS_BLOCK(priv.type)) => "SDV2" \in priv.type
  /\ \A i \in DOMAIN sdio :
       (IS_SD(sdio[i].type) /\ IS_BLOCK(sdio[i].type)) =>
         "SDV2" \in sdio[i].type

(***************************************************************************)
(* The bus width of an SD card.                                            *)
(***************************************************************************)
\* C36: in mmcsd_widebus for an SD card, an R1 error in the answer to
\* ACMD42 is only a warning: CMD55 and ACMD6 follow it, and when ACMD6
\* succeeds the wide bus of the host is switched on.
C36_Acmd42OnlyWarns ==
  \A i \in DOMAIN sdio :
    (sdio[i].cmd = "ACMD42" /\ sdio[i].resp = "IOERR") =>
      /\ i + 2 <= Len(sdio)
      /\ sdio[i + 1].cmd = "CMD55"
      /\ sdio[i + 2].cmd = "ACMD6"
      /\ sdio[i + 2].arg = Arg(2)
      /\ sdio[i + 2].resp = "OK" =>
           \E j \in DOMAIN sdio : j > i + 2 /\ sdio[j].cmd = "SDIO_WIDEBUS_ON"

(***************************************************************************)
(* The mutex over the whole of a call.                                     *)
(***************************************************************************)
\* C37: every entry point that takes the mutex (open, close, read, write,
\* geometry, ioctl, media change, hwinitialize) gives it back exactly once
\* on every return path: the mutex passes to a caller only in its
\* mmcsd_lock, stays with it in every step of the handler whatever the
\* result, leaves it only in the step that returns, and no caller that has
\* returned holds it.
C37_LockReleasedOnce ==
  /\ [](\A t \in Threads :
          /\ cur[t].pc = "idle" => lock # t
          /\ cur[t].pc \in {"body", "done"} => (cur[t].held <=> lock = t)
          /\ cur[t].pc \in {"idle", "lock"} => ~cur[t].held)
  /\ [][\A t \in Threads :
          /\ (lock # t /\ lock' = t) =>
               /\ lock = 0
               /\ cur[t].pc = "lock" /\ cur'[t].pc = "body"
          /\ (lock = t /\ lock' # t) =>
               /\ lock' = 0
               /\ cur[t].pc = "done" /\ cur'[t] = Idle
          /\ (cur[t].pc = "body" /\ cur'[t] # cur[t]) =>
               /\ cur'[t].pc \in {"body", "done"}
               /\ cur'[t].held = cur[t].held
               /\ lock' = lock
          /\ (cur[t].pc = "done" /\ cur'[t] # cur[t]) =>
               /\ cur'[t] = Idle
               /\ cur[t].held => lock = t /\ lock' = 0]_vars

\* A handler has failed and its caller still holds the mutex on the way to
\* mmcsd_unlock, while another caller waits in mmcsd_lock.
C37_Witness ==
  \E t, u \in Threads :
    /\ t # u
    /\ cur[t].pc = "done"
    /\ cur[t].ret < 0
    /\ cur[t].held
    /\ lock = t
    /\ cur[u].pc = "lock"

(***************************************************************************)
(* Who sets wrbusy.                                                        *)
(***************************************************************************)
WriteCmds == {"CMD24", "CMD25", "CMD56WR"}

\* Entry k of the log is a CMD6: mmcsd_switch sets wrbusy right after it.
SwitchSent(log, k) == log[k].cmd = "CMD6"

\* Entry k of the log ends the data phase of a write with success: the
\* event wait after CMD24, CMD25 or CMD56 (write), or the CMD12 that
\* follows such a wait in mmcsd_writemultiple.
WriteDone(log, k) ==
  LET cmds == {i \in Where(log, IsCmd) : i < k}
      waited(i) == /\ IsEventOk(log[i])
                   /\ cmds # {}
                   /\ log[Last(cmds)].cmd \in WriteCmds
  IN  \/ waited(k)
      \/ /\ log[k].cmd = "CMD12"
         /\ log[k].resp = "OK"
         /\ k > 1
         /\ waited(k - 1)

\* C38: wrbusy goes from false to true only right after a CMD6 has been
\* sent or right after the data phase of a write (CMD24, CMD25, CMD56
\* write) has ended with success; in a write that fails the write itself
\* never sets it (only the CMD6 of its partition switch can); and from the
\* entry of mmcsd_transferready to a return with an error wrbusy does not
\* change.
C38_WrbusySetters ==
  [][LET n == Len(sdio')
         Before(k) == IF k = 0 THEN priv.wrbusy ELSE sdio'[k].wrbusy
         After(k) == IF k = n THEN priv'.wrbusy ELSE sdio'[k + 1].wrbusy
         Set == {k \in 0 .. n : ~Before(k) /\ After(k)}
     IN  /\ \A k \in Set :
              /\ k >= 1
              /\ SwitchSent(sdio', k) \/ WriteDone(sdio', k)
         /\ \A t \in Threads :
              (Transfers(t) /\ cur[t].op = "write" /\ cur'[t].ret < 0) =>
                \A k \in Set : SwitchSent(sdio', k)
         /\ \A i \in Where(sdio', IsEntryMark), j \in DOMAIN sdio' :
              (/\ i < j
               /\ sdio'[j].cmd = "transferready:FAIL"
               /\ \A m \in i + 1 .. j - 1 :
                    sdio'[m].cmd \notin {"transferready", "transferready:OK",
                                        "transferready:FAIL"}) =>
                \A m \in i .. j : sdio'[m].wrbusy = sdio'[i].wrbusy]_vars

\* A write of several blocks to an SD card without CMD23: the data phase
\* ended with success, CMD12 failed, the write returned the error and
\* wrbusy is still false.
C38_Witness ==
  \E t \in Threads :
    /\ cur[t].pc = "done"
    /\ cur[t].op = "write"
    /\ cur[t].ret < 0
    /\ ~priv.wrbusy
    /\ \E k \in DOMAIN sdio :
         /\ k > 1
         /\ sdio[k].cmd = "CMD12"
         /\ sdio[k].resp # "OK"
         /\ WriteDone(sdio, k - 1)
         /\ ~sdio[k].wrbusy

(***************************************************************************)
(* The cached partition over a removal.                                    *)
(***************************************************************************)
\* C39: after mmcsd_removed and a probe that identified and initialized
\* the card put back, partnum is 0, the partition a card selects after a
\* reset; so a transfer to another partition that finds partnum 0 sends
\* the CMD6 that selects its partition before its data command, whatever
\* partition was selected before the removal.
C39_ReprobeSelectsUser ==
  [][/\ ProbeSucceeded => priv'.partnum = MMCSD_PART_UDATA
     /\ \A t \in Threads :
          (/\ Transfers(t)
           /\ cur[t].part # MMCSD_PART_UDATA
           /\ priv.partnum = MMCSD_PART_UDATA
           /\ Where(sdio', IsDataCmd) # {}) =>
            \E i \in Where(sdio', IsPartConf) :
              /\ Cmd6Value(sdio'[i].arg.low) = cur[t].part
              /\ i < First(Where(sdio', IsDataCmd))]_vars

(***************************************************************************)
(* A probe whose initialization fails.                                     *)
(***************************************************************************)
\* The step ran mmcsd_probe, the card was identified and
\* mmcsd_sdinitialize / mmcsd_mmcinitialize then failed.
InitFailed ==
  /\ \E m \in Where(sdio', IsIdentified) : sdio'[m].arg = Arg(OK)
  /\ \E r \in Where(sdio', IsInitialized) : sdio'[r].arg # Arg(OK)

\* C40: when mmcsd_probe has identified the card and the initialization
\* of the card fails, the probe returns the error (BIOC_PROBE, which
\* passes on what mmcsd_probe returned, returns it) and leaves the slot
\* unprobed and empty: probed is false, the type is unknown and no name is
\* registered; and a probe of a slot that is not probed, with the card in
\* it, runs mmcsd_cardidentify again.
C40_FailedInitLeavesEmpty ==
  [][\A t \in Threads :
       (cur[t].pc = "body" /\ cur'[t] # cur[t]) =>
         /\ InitFailed =>
              /\ cur[t].op = "ioctl" =>
                   \E r \in Where(sdio', IsInitialized) :
                     cur'[t].ret = -sdio'[r].arg.low
              /\ ~priv'.probed
              /\ priv'.type = MMCSD_CARDTYPE_UNKNOWN
              /\ registered' = {}
         /\ (/\ cur[t].op = "mediachange"
             /\ card # "NONE"
             /\ ~priv.probed) => Where(sdio', IsIdentified) # {}]_vars

====
